---- MODULE Spec2Model ----
(***************************************************************************)
(* The `run` command of ags-cli: runCommand builds the execution tasks and *)
(* dispatches them to runSingleTask, runTasksSequential or                *)
(* runTasksParallel; printMultiTaskResults aggregates the results and      *)
(* decides the process exit code.                                          *)
(*                                                                         *)
(* Remote calls (code.Create, ConnectSandboxWithCache, Code.RunCode,       *)
(* Sandbox.Kill) are blocking calls whose outcome the environment picks.   *)
(* Every operation of a goroutine that another goroutine can observe is a  *)
(* step of its own: a critical section under sandboxesMu or resultsMu, a   *)
(* send or receive on a channel, wg.Done().  A critical section holds no   *)
(* blocking call, so taking the mutex, the access and the release are one  *)
(* step.                                                                   *)
(*                                                                         *)
(* Beside the run command the module holds the exec command (execCommand   *)
(* and getSandboxForExec) and the file-backed token cache                  *)
(* (internal/token), each under a specification of its own.                *)
(***************************************************************************)
EXTENDS Integers, Sequences, FiniteSets

\* Largest number of tasks a run is drawn with, and largest number of tasks
\* a run is drawn with in parallel under every flag.
MaxTasks == 3
ParallelTasks == 2

\* The scenario run: this many tasks in parallel under this --max-parallel.
ScenarioTasks == 4
ScenarioLimit == 2

\* Longest results slice handed to printMultiTaskResults on its own.
MaxResults == 3

\* Most -f files and largest --repeat buildTasks is drawn with on its own.
MaxFiles == 3
MaxRepeat == 2

\* Clock ticks a code.Create call and a RunCode call take, and the ticks a
\* goroutine may spend waiting for a mutex.
CreateTicks == 2
RunTicks == 1
LockTicks == 1

\* The token cache: instance ids, tokens and concurrent callers.
MaxIds == 2
MaxTokens == 2
MaxCallers == 2

\* The exec command: the most --env entries given.
MaxEnv == 2

\* The most tasks of a parallel run whose termination is checked.
LiveTasks == 2

VARIABLES
    \* command-line flags (package variables of the run command)
    runCode,          \* TRUE iff -c was given a non-empty string
    runFiles,         \* the -f paths, a sequence of file numbers
    runInstance,      \* TRUE iff --instance names an existing instance
    runRepeat,        \* --repeat
    runParallel,      \* --parallel
    runMaxParallel,   \* --max-parallel
    runKeepAlive,     \* --keep-alive
    runStream,        \* --stream
    outputJSON,       \* config.GetOutput() == "json"
    \* what buildTasks finds outside the flags
    unreadable,       \* the file numbers os.ReadFile fails on
    stdinPiped,       \* TRUE iff standard input is not a character device
    stdinData,        \* what reading standard input gives: "empty", "code", "error"
    editorData,       \* what openEditor gives: "empty", "code", "error"
    \* control
    pc,               \* position of the main goroutine
    tasks,            \* the task list buildTasks returned
    results,          \* the runner's results slice
    \* runTasksSequential / runSingleTask locals
    sandbox,          \* the shared sandbox handle (NoSandbox before acquisition)
    sandboxCreateDuration,
    killDeferred,     \* TRUE iff the deferred sandbox.Kill is registered
    loopIdx,          \* index of the task the sequential loop is at
    singleResult,     \* what RunCode returned to runSingleTask ("none" before)
    \* runTasksParallel locals
    maxParallel,      \* capacity of sem
    sem,              \* number of tokens in the sem channel
    wg,               \* WaitGroup counter
    tpc,              \* position of each task goroutine
    sandboxes,        \* tracked sandboxes, in append order
    chanState,        \* resultChan: "nil", "open" or "closed"
    chanBuf,          \* buffered contents of resultChan
    printerPc,        \* the printing goroutine: "none", "running", "done"
    \* the exec command: its flags and the cleanup function it defers
    execInstance,     \* TRUE iff exec's --instance names an existing instance
    execKeepAlive,    \* exec's --keep-alive
    execStream,       \* exec's --stream
    execEnv,          \* the --env entries: TRUE for KEY=VALUE, FALSE otherwise
    cleanup,          \* "none", "noop" or "kill" (the closure that calls Kill)
    \* the token cache
    tokenFile,        \* ~/.ags/tokens.json: whether it is there, and its bytes
    callers,          \* per caller of the cache, its operation and position
    \* observable effects
    opened,           \* the sources buildTasks read or opened, in order
    createCalls,      \* number of code.Create calls issued
    connectCalls,     \* number of ConnectSandboxWithCache calls issued
    runCalls,         \* per task index, number of RunCode calls issued
    killCalls,        \* per sandbox id, number of Kill calls issued
    writes,           \* per results slot, the goroutines that wrote it, in order
    printed,          \* per task index, times its result was printed
    keptAlive,        \* the "kept alive" messages printed, each a list of ids
    summary,          \* the summary printed (NoSummary before)
    exitCode          \* the process exit code (NoExit while running)

flags == <<runCode, runFiles, runInstance, runRepeat, runParallel,
           runMaxParallel, runKeepAlive, runStream, outputJSON>>
inputs == <<unreadable, stdinPiped, stdinData, editorData>>
seqVars == <<sandbox, sandboxCreateDuration, killDeferred, loopIdx>>
parVars == <<maxParallel, sem, wg, tpc, sandboxes, chanState, chanBuf, printerPc>>
effects == <<createCalls, connectCalls, runCalls, killCalls, writes, printed,
             keptAlive, summary, exitCode>>
execVars == <<execInstance, execKeepAlive, execStream, execEnv, cleanup>>
cacheVars == <<tokenFile, callers>>
\* What the run command leaves alone, but for the token cache file when it
\* connects to an instance.
restVars == <<execVars, cacheVars>>
vars == <<flags, inputs, restVars, singleResult, opened, pc, tasks, results,
          seqVars, parVars, effects>>

----------------------------------------------------------------------------
\* Values

NoExit == 0 - 1
NoSandbox == 0 - 1
\* The sandbox handle ConnectSandboxWithCache returns for --instance.
ExistingInstance == 0
NoSummary == [total |-> -1, success |-> -1, failed |-> -1]
MainGoroutine == 0

Max(a, b) == IF a >= b THEN a ELSE b
Min(a, b) == IF a <= b THEN a ELSE b

\* Go's zero values of executionTask and taskResult.
ZeroTask == [id |-> 0, code |-> 0, source |-> [kind |-> "", path |-> 0],
             instanceNo |-> 0, totalInst |-> 0]
ZeroResult == [task |-> ZeroTask, result |-> "nil", err |-> "nil",
               createDuration |-> 0, execDuration |-> 0, totalDuration |-> 0]

\* Source tags: the literal-code marker and the path of file number f.
CodeSource == [kind |-> "<code>", path |-> 0]
FileSource(f) == [kind |-> "file", path |-> f]
StdinSource == [kind |-> "<stdin>", path |-> 0]
EditorSource == [kind |-> "<editor>", path |-> 0]
\* The code text: the -c string, the content of file number f, the text read
\* from standard input, the text openEditor returns.
LiteralCode == 0
FileContent(f) == f
PipedCode == 0 - 1
EditedCode == 0 - 2

----------------------------------------------------------------------------
\* buildTasks

\* One pass of the `for i := 0; i < max(runRepeat, 1); i++` loop and the ones
\* after it: st carries the tasks slice and the taskID counter.
RECURSIVE appendRepeats(_, _, _, _, _)
appendRepeats(st, codeStr, source, repeat, i) ==
    IF i >= Max(repeat, 1) THEN st
    ELSE appendRepeats(
            [st EXCEPT !.tasks = Append(@,
                         [id |-> st.taskID, code |-> codeStr, source |-> source,
                          instanceNo |-> i + 1, totalInst |-> Max(repeat, 1)]),
                       !.taskID = @ + 1],
            codeStr, source, repeat, i + 1)

\* The file loop that, at a file it cannot read, returns the error together
\* with the tasks built from the files before it.
appendFiles_KeepsEarlierTasks(st, files, repeat, k, bad) ==
    LET r == Max(repeat, 1)
        stop == IF \E j \in k..Len(files) : files[j] \in bad
                THEN CHOOSE j \in k..Len(files) :
                        /\ files[j] \in bad
                        /\ \A h \in k..(j - 1) : files[h] \notin bad
                ELSE Len(files) + 1
        last == IF stop <= Len(files) THEN stop ELSE Len(files)
        built == [i \in 1..((stop - k) * r) |->
                    LET f == files[k + ((i - 1) \div r)] IN
                    [id |-> st.taskID + i - 1, code |-> FileContent(f),
                     source |-> FileSource(f),
                     instanceNo |-> ((i - 1) % r) + 1, totalInst |-> r]] IN
    [tasks |-> st.tasks \o built,
     taskID |-> st.taskID + Len(built),
     err |-> IF stop <= Len(files) THEN "read" ELSE st.err,
     errFile |-> IF stop <= Len(files) THEN files[stop] ELSE st.errFile,
     opened |-> st.opened \o [j \in 1..(last - k + 1) |->
                                FileSource(files[k + j - 1])]]

\* The `for _, file := range runFiles` loop from position k on: a file that
\* cannot be read ends buildTasks with (nil, err).
RECURSIVE appendFiles(_, _, _, _, _)
appendFiles(st, files, repeat, k, bad) ==
    IF k > Len(files) THEN st
    ELSE LET read == [st EXCEPT !.opened = Append(@, FileSource(files[k]))] IN
         IF files[k] \in bad
         THEN [read EXCEPT !.tasks = <<>>, !.err = "read", !.errFile = files[k]]
         ELSE appendFiles(
                 appendRepeats(read, FileContent(files[k]), FileSource(files[k]),
                               repeat, 0),
                 files, repeat, k + 1, bad)

\* NoTasks with a taskID counter that starts at 0.
NoTasks_FromZero ==
    [tasks |-> <<>>, taskID |-> 0, err |-> "nil", errFile |-> 0, opened |-> <<>>]

\* The tasks slice and taskID at the start of buildTasks, with no error and
\* nothing read.
NoTasks == [tasks |-> <<>>, taskID |-> 1, err |-> "nil", errFile |-> 0,
            opened |-> <<>>]

\* buildTasks that opens the editor when the piped input is empty.
buildTasks_EditorAfterEmptyPipe(code, files, repeat, env) ==
    IF code THEN appendRepeats(NoTasks, LiteralCode, CodeSource, repeat, 0)
    ELSE IF Len(files) > 0
    THEN appendFiles(NoTasks, files, repeat, 1, env.unreadable)
    ELSE IF env.piped /\ env.stdin # "empty"
    THEN LET st == [NoTasks EXCEPT !.opened = <<StdinSource>>] IN
         IF env.stdin = "error" THEN [st EXCEPT !.err = "stdin"]
         ELSE appendRepeats(st, PipedCode, StdinSource, repeat, 0)
    ELSE LET st == [NoTasks EXCEPT !.opened =
                       IF env.piped THEN <<StdinSource, EditorSource>>
                       ELSE <<EditorSource>>] IN
         IF env.editor = "error" THEN [st EXCEPT !.err = "editor"]
         ELSE IF env.editor = "code"
         THEN appendRepeats(st, EditedCode, EditorSource, repeat, 0)
         ELSE st

\* buildTasks: -c, else the -f files, else piped standard input, else the
\* editor.  env is what lies outside the flags: the unreadable files, whether
\* standard input is piped and what it holds, what openEditor returns.
buildTasks(code, files, repeat, env) ==
    IF code THEN appendRepeats(NoTasks, LiteralCode, CodeSource, repeat, 0)
    ELSE IF Len(files) > 0
    THEN appendFiles(NoTasks, files, repeat, 1, env.unreadable)
    ELSE IF env.piped
    THEN LET st == [NoTasks EXCEPT !.opened = <<StdinSource>>] IN
         IF env.stdin = "error" THEN [st EXCEPT !.err = "stdin"]
         ELSE IF env.stdin = "code"
         THEN appendRepeats(st, PipedCode, StdinSource, repeat, 0)
         ELSE st
    ELSE LET st == [NoTasks EXCEPT !.opened = <<EditorSource>>] IN
         IF env.editor = "error" THEN [st EXCEPT !.err = "editor"]
         ELSE IF env.editor = "code"
         THEN appendRepeats(st, EditedCode, EditorSource, repeat, 0)
         ELSE st

----------------------------------------------------------------------------
\* Inputs

\* The first k file numbers, as the -f list.
FileList(k) == [i \in 1..k |-> i]

\* Command lines: -c with a repeat count of up to MaxTasks (with --instance
\* and a repeat count above 1 the command is rejected), or a list of fewer
\* than MaxTasks -f files run once each, or both -c and -f.
RunInputs ==
    {in \in [code : BOOLEAN, nfiles : 0..(MaxTasks - 1), repeat : 0..MaxTasks,
             instance : BOOLEAN] :
        /\ in.code \/ in.nfiles > 0
        /\ ~in.code => in.repeat = 1}

\* Every file is readable, standard input is a terminal and the editor, were
\* it opened, would return nothing.
QuietEnv == [unreadable |-> {}, piped |-> FALSE, stdin |-> "empty",
             editor |-> "empty"]

\* The variables of inputs hold env.
EnvIs(env) ==
    /\ unreadable = env.unreadable
    /\ stdinPiped = env.piped
    /\ stdinData = env.stdin
    /\ editorData = env.editor

\* What lies outside the flags, as buildTasks takes it.
Env == [unreadable |-> unreadable, piped |-> stdinPiped, stdin |-> stdinData,
        editor |-> editorData]

\* Values of --max-parallel drawn for a parallel run of n tasks.
Limits(n) == {0, 1, 2, n, 2 * n}

\* What RunCode returns: an Execution without Error, an Execution whose Error
\* is set, or a transport error.
RunOutcomes == {"ok", "execError", "transportError"}

\* An operation of the cache that takes no token.
NoToken == 0

\* CacheVersion, the version of the cache file format.
CacheVersion == 1

\* The instance ids and the tokens the cache is used with.
InstanceIds == 1..MaxIds
Tokens == 1..MaxTokens

\* The instance id --instance is given.
GivenInstance == 1

\* The exec command is not running.
ExecIdle ==
    /\ execInstance = FALSE
    /\ execKeepAlive = FALSE
    /\ execStream = FALSE
    /\ execEnv = <<>>
    /\ cleanup = "none"

----------------------------------------------------------------------------
\* tokens.json as bytes: json.MarshalIndent writes them and json.Unmarshal
\* reads them (encoding/json, time)

\* The place of a character among the byte values of the characters
\* tokens.json is made of.
Ord(c) ==
    LET Ascii ==
            <<"\n", " ", "\"", "+", ",", "-", ".",
              "0", "1", "2", "3", "4", "5", "6", "7", "8", "9", ":",
              "T", "Z", "_",
              "a", "b", "c", "d", "e", "f", "g", "h", "i", "j", "k", "l", "m",
              "n", "o", "p", "q", "r", "s", "t", "u", "v", "w", "x", "y", "z",
              "{", "}">>
    IN CHOOSE i \in DOMAIN Ascii : Ascii[i] = c

Digits == <<"0", "1", "2", "3", "4", "5", "6", "7", "8", "9">>
IsDigit(c) == \E i \in DOMAIN Digits : Digits[i] = c

\* The value of a sequence of decimal digits.
RECURSIVE DecimalValue(_)
DecimalValue(s) ==
    LET DigitValue(c) == (CHOOSE i \in DOMAIN Digits : Digits[i] = c) - 1 IN
    IF s = <<>> THEN 0
    ELSE 10 * DecimalValue(SubSeq(s, 1, Len(s) - 1)) + DigitValue(s[Len(s)])

\* strconv.Itoa of a natural number.
RECURSIVE Decimal(_)
Decimal(n) ==
    IF n < 10 THEN <<Digits[n + 1]>>
    ELSE Decimal(n \div 10) \o <<Digits[(n % 10) + 1]>>

\* a < b, for two natural numbers as strconv writes them.  An int of Go has
\* 64 bits, so that the model holds one by its digits.
DecimalLess(a, b) ==
    \/ Len(a) < Len(b)
    \/ /\ Len(a) = Len(b)
       /\ \E i \in 1..Len(a) :
             /\ SubSeq(a, 1, i - 1) = SubSeq(b, 1, i - 1)
             /\ Ord(a[i]) < Ord(b[i])

\* The keys of a map in the order json writes them: sorted as Go compares
\* strings, byte by byte.
RECURSIVE SortedKeys(_)
SortedKeys(keys) ==
    LET StringLess(a, b) ==
            LET diff == {i \in 1..Min(Len(a), Len(b)) : a[i] # b[i]} IN
            IF diff = {} THEN Len(a) < Len(b)
            ELSE LET i == CHOOSE j \in diff : \A k \in diff : j <= k IN
                 Ord(a[i]) < Ord(b[i])
    IN
    IF keys = {} THEN <<>>
    ELSE LET first == CHOOSE k \in keys :
                         \A j \in keys \ {k} : StringLess(k, j) IN
         <<first>> \o SortedKeys(keys \ {first})

\* The json tags of the fields of CacheData and TokenEntry.
JsonTags ==
    [Version |-> <<"v", "e", "r", "s", "i", "o", "n">>,
     Tokens |-> <<"t", "o", "k", "e", "n", "s">>,
     AccessToken |->
        <<"a", "c", "c", "e", "s", "s", "_", "t", "o", "k", "e", "n">>,
     CreatedAt |-> <<"c", "r", "e", "a", "t", "e", "d", "_", "a", "t">>]

NullLiteral == <<"n", "u", "l", "l">>

\* A nil *TokenEntry, and a map without entries.
NilEntry == [nil |-> TRUE]
EmptyMap == [k \in {} |-> NilEntry]

\* m[key] = entry and delete(m, key)
MapPut(tokens, key, entry) ==
    [k \in DOMAIN tokens \cup {key} |-> IF k = key THEN entry ELSE tokens[k]]
MapDelete(tokens, key) == [k \in DOMAIN tokens \ {key} |-> tokens[k]]

\* json.MarshalIndent(cache, "", "  "): every member of an object on a line
\* of its own, indented by two spaces a level; an object without members is
\* {}.  No character of a string here needs an escape.  It returns an error
\* when Time.MarshalJSON does, which is for a zone 24 hours or more off UTC.
Indent(depth) == [i \in 1..(2 * depth) |-> " "]
JsonString(str) == <<"\"">> \o str \o <<"\"">>
JsonMember(depth, key, value) ==
    Indent(depth) \o JsonString(key) \o <<":", " ">> \o value

MarshalEntry(entry) ==
    IF entry = NilEntry THEN NullLiteral
    ELSE <<"{", "\n">>
         \o JsonMember(3, JsonTags.AccessToken, JsonString(entry.AccessToken))
         \o <<",", "\n">>
         \o JsonMember(3, JsonTags.CreatedAt, JsonString(entry.CreatedAt))
         \o <<"\n">> \o Indent(2) \o <<"}">>

MarshalTokens(tokens) ==
    LET RECURSIVE Entries(_)
        Entries(keys) ==
            IF keys = <<>> THEN <<>>
            ELSE JsonMember(2, Head(keys), MarshalEntry(tokens[Head(keys)]))
                 \o (IF Len(keys) > 1 THEN <<",">> ELSE <<>>) \o <<"\n">>
                 \o Entries(Tail(keys))
    IN
    IF DOMAIN tokens = {} THEN <<"{", "}">>
    ELSE <<"{", "\n">> \o Entries(SortedKeys(DOMAIN tokens))
         \o Indent(1) \o <<"}">>

MarshalIndent(cache) ==
    LET ZoneHour(time) ==
            IF time[Len(time)] = "Z" THEN 0
            ELSE DecimalValue(SubSeq(time, Len(time) - 4, Len(time) - 3))
        entries == {cache.Tokens[k] : k \in DOMAIN cache.Tokens} \ {NilEntry}
    IN
    IF \E entry \in entries : ZoneHour(entry.CreatedAt) >= 24
    THEN [err |-> TRUE, data |-> <<>>]
    ELSE [err |-> FALSE,
          data |-> <<"{", "\n">>
                   \o JsonMember(1, JsonTags.Version, cache.Version)
                   \o <<",", "\n">>
                   \o JsonMember(1, JsonTags.Tokens, MarshalTokens(cache.Tokens))
                   \o <<"\n", "}">>]

\* json.Unmarshal, the scan of the data for one JSON value.  A scan gives
\* the value and the position behind it, or fails.
ScanFail == [ok |-> FALSE, next |-> 0, val |-> [kind |-> "none"]]
Scanned(next, val) == [ok |-> TRUE, next |-> next, val |-> val]

\* The first position from i on that holds no white space.
RECURSIVE SkipSpace(_, _)
SkipSpace(s, i) ==
    IF i <= Len(s) /\ s[i] \in {" ", "\n"} THEN SkipSpace(s, i + 1) ELSE i

\* The string whose opening quote is at i: it ends at the next quote and
\* holds no control character.
ScanString(s, i) ==
    LET RECURSIVE StringEnd(_)
        StringEnd(j) ==
            IF j > Len(s) \/ s[j] = "\n" THEN 0
            ELSE IF s[j] = "\"" THEN j
            ELSE StringEnd(j + 1)
        end == StringEnd(i + 1)
    IN
    IF end = 0 THEN ScanFail
    ELSE Scanned(end + 1, [kind |-> "string", str |-> SubSeq(s, i + 1, end - 1)])

\* The number that starts at i:
\* -? (0 | [1-9][0-9]*) (. [0-9]+)? (e [+-]? [0-9]+)?
ScanNumber(s, i) ==
    LET At(j) == IF j <= Len(s) THEN s[j] ELSE ""
        RECURSIVE DigitsEnd(_)
        DigitsEnd(j) == IF IsDigit(At(j)) THEN DigitsEnd(j + 1) ELSE j
        Number(end, integer) ==
            Scanned(end, [kind |-> "number", integer |-> integer,
                          num |-> SubSeq(s, i, end - 1)])
        Exponent(j, integer) ==
            IF At(j) # "e" THEN Number(j, integer)
            ELSE IF At(j + 1) \in {"+", "-"}
            THEN (IF IsDigit(At(j + 2)) THEN Number(DigitsEnd(j + 2), FALSE)
                  ELSE ScanFail)
            ELSE (IF IsDigit(At(j + 1)) THEN Number(DigitsEnd(j + 1), FALSE)
                  ELSE ScanFail)
        Fraction(j) ==
            IF At(j) # "." THEN Exponent(j, TRUE)
            ELSE IF IsDigit(At(j + 1)) THEN Exponent(DigitsEnd(j + 1), FALSE)
            ELSE ScanFail
        int == IF s[i] = "-" THEN i + 1 ELSE i
    IN
    IF ~IsDigit(At(int)) THEN ScanFail
    ELSE IF At(int) = "0" THEN Fraction(int + 1)
    ELSE Fraction(DigitsEnd(int))

RECURSIVE ScanValue(_, _), ScanMembers(_, _, _)
\* The JSON value that starts at i: an object, a string, a number or one
\* of null, true and false.
ScanValue(s, i) ==
    LET Literal(word) ==
            IF SubSeq(s, i, Min(Len(s), i + Len(word) - 1)) = word
            THEN Scanned(i + Len(word), [kind |-> "literal", word |-> word])
            ELSE ScanFail
    IN
    IF i > Len(s) THEN ScanFail
    ELSE IF s[i] = "{"
    THEN LET j == SkipSpace(s, i + 1) IN
         IF j <= Len(s) /\ s[j] = "}"
         THEN Scanned(j + 1, [kind |-> "object", members |-> <<>>])
         ELSE ScanMembers(s, j, <<>>)
    ELSE IF s[i] = "\"" THEN ScanString(s, i)
    ELSE IF s[i] = "-" \/ IsDigit(s[i]) THEN ScanNumber(s, i)
    ELSE IF s[i] = "n" THEN Literal(NullLiteral)
    ELSE IF s[i] = "t" THEN Literal(<<"t", "r", "u", "e">>)
    ELSE IF s[i] = "f" THEN Literal(<<"f", "a", "l", "s", "e">>)
    ELSE ScanFail

\* The members of an object from the key at i on, after the members in acc.
ScanMembers(s, i, acc) ==
    IF i > Len(s) \/ s[i] # "\"" THEN ScanFail
    ELSE LET key == ScanString(s, i) IN
    IF ~key.ok THEN ScanFail
    ELSE LET colon == SkipSpace(s, key.next) IN
    IF colon > Len(s) \/ s[colon] # ":" THEN ScanFail
    ELSE LET value == ScanValue(s, SkipSpace(s, colon + 1)) IN
    IF ~value.ok THEN ScanFail
    ELSE LET sep == SkipSpace(s, value.next)
             members == Append(acc, [key |-> key.val.str, val |-> value.val])
         IN
    IF sep > Len(s) THEN ScanFail
    ELSE IF s[sep] = "," THEN ScanMembers(s, SkipSpace(s, sep + 1), members)
    ELSE IF s[sep] = "}"
    THEN Scanned(sep + 1, [kind |-> "object", members |-> members])
    ELSE ScanFail

\* json.Unmarshal, the scanned value stored into a CacheData.  A member is
\* stored into the field whose tag its key is, whatever the case of its
\* letters; a null makes a map and a pointer nil and leaves any other field
\* as it is; a member no field has the tag of is skipped; a value of another
\* type than the field's is an error.
IsNull(val) == val.kind = "literal" /\ val.word = NullLiteral
FoldName(key) ==
    [i \in DOMAIN key |->
        IF key[i] = "T" THEN "t" ELSE IF key[i] = "Z" THEN "z" ELSE key[i]]
DecodeFail == [err |-> TRUE]

\* Time.UnmarshalJSON of a string, which is time.Parse with the layout
\* RFC3339 (2006-01-02T15:04:05Z07:00): the hour has one or two digits, a
\* fraction of the second may follow a period or a comma, and the zone is Z
\* or an offset of up to 24 hours and 60 minutes.  The time is kept as
\* Time.MarshalJSON writes it: the hour with two digits, of the fraction at
\* most nine digits without the zeros at its end, and the offset 00:00 as Z.
ParseTime(str) ==
    LET At(i) == IF i <= Len(str) THEN str[i] ELSE ""
        TwoDigits(i) == IsDigit(At(i)) /\ IsDigit(At(i + 1))
        Number(i) == DecimalValue(SubSeq(str, i, i + 1))
        Pad(n) == <<Digits[(n \div 10) + 1], Digits[(n % 10) + 1]>>
        RECURSIVE DigitsEnd(_)
        DigitsEnd(i) == IF IsDigit(At(i)) THEN DigitsEnd(i + 1) ELSE i
        IsLeapYear(y) == y % 4 = 0 /\ (y % 100 # 0 \/ y % 400 = 0)
        DaysIn(month, year) ==
            IF month = 2 THEN (IF IsLeapYear(year) THEN 29 ELSE 28)
            ELSE IF month \in {4, 6, 9, 11} THEN 30 ELSE 31
        Fraction(f, z) ==
            LET digits == SubSeq(str, f + 1, Min(z - 1, f + 9))
                kept == {i \in DOMAIN digits : digits[i] # "0"}
            IN IF kept = {} THEN <<>>
               ELSE <<".">> \o SubSeq(digits, 1,
                                     CHOOSE i \in kept : \A j \in kept : j <= i)
        Offset(z) == Number(z + 1) * 60 + Number(z + 4)
        Zone(z) ==
            IF At(z) = "Z" THEN [ok |-> z = Len(str), str |-> <<"Z">>]
            ELSE IF /\ z + 5 = Len(str)
                    /\ At(z) \in {"+", "-"}
                    /\ TwoDigits(z + 1)
                    /\ At(z + 3) = ":"
                    /\ TwoDigits(z + 4)
                    /\ Number(z + 1) <= 24
                    /\ Number(z + 4) <= 60
            THEN [ok |-> TRUE,
                  str |-> IF Offset(z) = 0 THEN <<"Z">>
                          ELSE <<At(z)>> \o Pad(Offset(z) \div 60)
                               \o <<":">> \o Pad(Offset(z) % 60)]
            ELSE [ok |-> FALSE, str |-> <<>>]
        Rest(f, z) ==
            [ok |-> Zone(z).ok, str |-> Fraction(f, z) \o Zone(z).str]
        \* from position f on, behind the seconds
        Behind(f) ==
            IF At(f) \in {".", ","} /\ IsDigit(At(f + 1))
            THEN Rest(f, DigitsEnd(f + 1))
            ELSE Rest(f, f)
        \* from the minutes, at position m, on
        Clock(m) ==
            IF /\ At(m - 1) = ":"
               /\ TwoDigits(m)
               /\ At(m + 2) = ":"
               /\ TwoDigits(m + 3)
               /\ DecimalValue(SubSeq(str, 12, m - 2)) <= 23
               /\ Number(m) <= 59
               /\ Number(m + 3) <= 59
            THEN [ok |-> Behind(m + 5).ok,
                  str |-> (IF m = 14 THEN <<"0">> ELSE <<>>)
                          \o SubSeq(str, 12, m + 4) \o Behind(m + 5).str]
            ELSE [ok |-> FALSE, str |-> <<>>]
    IN
    IF /\ \A i \in 1..4 : IsDigit(At(i))
       /\ At(5) = "-"
       /\ TwoDigits(6)
       /\ At(8) = "-"
       /\ TwoDigits(9)
       /\ At(11) = "T"
       /\ IsDigit(At(12))
       /\ Number(6) \in 1..12
       /\ Number(9) \in 1..DaysIn(Number(6), DecimalValue(SubSeq(str, 1, 4)))
    THEN [ok |-> Clock(IF IsDigit(At(13)) THEN 15 ELSE 14).ok,
          str |-> SubSeq(str, 1, 11)
                  \o Clock(IF IsDigit(At(13)) THEN 15 ELSE 14).str]
    ELSE [ok |-> FALSE, str |-> <<>>]

RECURSIVE DecodeEntry(_, _, _)
\* The members of an object from the i-th on, stored into a TokenEntry.
DecodeEntry(members, i, entry) ==
    IF i > Len(members) THEN [err |-> FALSE, entry |-> entry]
    ELSE LET name == FoldName(members[i].key)
             val == members[i].val
         IN
    IF name = JsonTags.AccessToken /\ ~IsNull(val)
    THEN IF val.kind # "string" THEN DecodeFail
         ELSE DecodeEntry(members, i + 1, [entry EXCEPT !.AccessToken = val.str])
    ELSE IF name = JsonTags.CreatedAt /\ ~IsNull(val)
    THEN IF val.kind # "string" THEN DecodeFail
         ELSE LET Store(time) ==
                      IF ~time.ok THEN DecodeFail
                      ELSE DecodeEntry(members, i + 1,
                                       [entry EXCEPT !.CreatedAt = time.str])
              IN Store(ParseTime(val.str))
    ELSE DecodeEntry(members, i + 1, entry)

\* The zero TokenEntry: no token, and the zero time.Time as json writes it.
ZeroEntry ==
    [AccessToken |-> <<>>,
     CreatedAt |-> <<"0", "0", "0", "1", "-", "0", "1", "-", "0", "1", "T",
                     "0", "0", ":", "0", "0", ":", "0", "0", "Z">>]

RECURSIVE DecodeTokens(_, _, _)
\* The members of an object from the i-th on, stored into the Tokens map:
\* a null is a nil entry, an object a new TokenEntry, and the last member
\* with a key is the one the map keeps.
DecodeTokens(members, i, tokens) ==
    IF i > Len(members) THEN [err |-> FALSE, tokens |-> tokens]
    ELSE LET val == members[i].val IN
    IF IsNull(val)
    THEN DecodeTokens(members, i + 1, MapPut(tokens, members[i].key, NilEntry))
    ELSE IF val.kind # "object" THEN DecodeFail
    ELSE LET e == DecodeEntry(val.members, 1, ZeroEntry) IN
         IF e.err THEN DecodeFail
         ELSE DecodeTokens(members, i + 1,
                           MapPut(tokens, members[i].key, e.entry))

RECURSIVE DecodeCache(_, _, _)
\* The members of an object from the i-th on, stored into a CacheData.  A
\* null sets the Tokens map to nil; the Version is a number without fraction
\* and exponent that fits an int64.
DecodeCache(members, i, cache) ==
    LET name == FoldName(members[i].key)
        val == members[i].val
        MaxInt64 == <<"9", "2", "2", "3", "3", "7", "2", "0", "3", "6",
                      "8", "5", "4", "7", "7", "5", "8", "0", "7">>
        MinInt64 == <<"9", "2", "2", "3", "3", "7", "2", "0", "3", "6",
                      "8", "5", "4", "7", "7", "5", "8", "0", "8">>
        FitsInt64(num) ==
            IF num[1] = "-" THEN ~DecimalLess(MinInt64, Tail(num))
            ELSE ~DecimalLess(MaxInt64, num)
        Stored(tokens) ==
            IF tokens.err THEN DecodeFail
            ELSE DecodeCache(members, i + 1,
                             [cache EXCEPT !.Tokens = tokens.tokens])
    IN
    IF i > Len(members) THEN [err |-> FALSE, cache |-> cache]
    ELSE IF name = JsonTags.Version /\ ~IsNull(val)
    THEN IF val.kind # "number" \/ ~val.integer \/ ~FitsInt64(val.num)
         THEN DecodeFail
         ELSE DecodeCache(members, i + 1,
                 [cache EXCEPT !.Version =
                     IF val.num = <<"-", "0">> THEN <<"0">> ELSE val.num])
    ELSE IF name = JsonTags.Tokens
    THEN IF IsNull(val)
         THEN DecodeCache(members, i + 1, [cache EXCEPT !.Tokens = EmptyMap])
         ELSE IF val.kind # "object" THEN DecodeFail
         ELSE Stored(DecodeTokens(val.members, 1, cache.Tokens))
    ELSE DecodeCache(members, i + 1, cache)

\* json.Unmarshal(data, &cache) with the zero CacheData (Version 0 and a
\* nil Tokens map, which load replaces by an empty one, so that the model
\* holds a nil map as an empty one): the data is one
\* JSON value between white space, null or an object that fits a CacheData.
Unmarshal(data) ==
    LET zero == [Version |-> Decimal(0), Tokens |-> EmptyMap]
        Decode(v) ==
            IF ~v.ok \/ SkipSpace(data, v.next) # Len(data) + 1 THEN DecodeFail
            ELSE IF IsNull(v.val) THEN [err |-> FALSE, cache |-> zero]
            ELSE IF v.val.kind # "object" THEN DecodeFail
            ELSE DecodeCache(v.val.members, 1, zero)
    IN Decode(ScanValue(data, SkipSpace(data, 1)))

----------------------------------------------------------------------------
\* The token cache file (internal/token)

\* The instance id and the access token the numbers stand for, as the
\* strings the cache is called with: "i1", "i2", ... and "x", "yyyy",
\* "zzzzzzz", ...
InstanceName(id) == <<"i", Digits[id + 1]>>
TokenString(t) ==
    LET letters == <<"x", "y", "z", "w">> IN
    [j \in 1..(3 * t - 2) |-> letters[t]]

\* What time.Now() gives, as json writes it, with the nanoseconds and the
\* offset of the local zone: a whole second in UTC, and a time in a zone
\* east of it.
ClockTimes ==
    {<<"2", "0", "2", "4", "-", "0", "1", "-", "0", "1", "T",
       "0", "0", ":", "0", "0", ":", "0", "0", "Z">>,
     <<"2", "0", "2", "4", "-", "0", "1", "-", "0", "1", "T",
       "0", "8", ":", "0", "0", ":", "0", "0", ".", "1", "2", "3", "4", "5",
       "6", "7", "8", "9", "+", "0", "8", ":", "0", "0">>}

\* &CacheData{Version: CacheVersion, Tokens: make(map[string]*TokenEntry)}
NewCacheData == [Version |-> Decimal(CacheVersion), Tokens |-> EmptyMap]

\* tokens.json: it does not exist; it cannot be read, whatever it holds; or
\* it holds data.
AbsentFile == [kind |-> "absent", data |-> <<>>]
UnreadableFile == [kind |-> "unreadable", data |-> <<>>]
DataFile(data) == [kind |-> "data", data |-> data]

\* load: the cache data read from the file.  A file that does not exist and
\* data json.Unmarshal returns an error for give a new cache; any other read
\* error is returned.  A Version below CacheVersion is raised to it.
load(file) ==
    LET Migrated(version) ==
            IF version[1] = "-" \/ DecimalLess(version, Decimal(CacheVersion))
            THEN Decimal(CacheVersion)
            ELSE version
        Loaded(u) ==
            IF u.err THEN [err |-> "nil", cache |-> NewCacheData]
            ELSE [err |-> "nil",
                  cache |-> [u.cache EXCEPT !.Version = Migrated(@)]]
    IN
    CASE file.kind = "absent" -> [err |-> "nil", cache |-> NewCacheData]
      [] file.kind = "unreadable" -> [err |-> "read", cache |-> NewCacheData]
      [] file.kind = "data" -> Loaded(Unmarshal(file.data))

\* Get on the file as it stands: (token, found).
Get(file, instanceID) ==
    LET Lookup(cache) ==
            IF \/ cache.err # "nil"
               \/ instanceID \notin DOMAIN cache.cache.Tokens
               \/ cache.cache.Tokens[instanceID] = NilEntry
            THEN [token |-> <<>>, found |-> FALSE]
            ELSE [token |-> cache.cache.Tokens[instanceID].AccessToken,
                  found |-> TRUE]
    IN Lookup(load(file))

\* os.WriteFile, the open with O_WRONLY|O_CREATE|O_TRUNC: the file is left
\* without data.  A file that cannot be read stays so.
OpenTruncate(file) ==
    IF file.kind = "unreadable" THEN file ELSE DataFile(<<>>)

\* What a file that holds `old` holds after `new` was written at offset 0:
\* the bytes of old behind the end of new stay.
Overwrite(old, new) == new \o SubSeq(old, Len(new) + 1, Len(old))

\* os.WriteFile, the write of all of the data: it goes to offset 0 of what
\* the file holds by then and truncates nothing.
WriteAll(file, data) ==
    IF file.kind = "unreadable" THEN file
    ELSE DataFile(Overwrite(file.data, data))

\* os.WriteFile, a write that fails: the first bytes of the data are
\* written at offset 0, any number of them: none, or all of them when it is
\* the Close that fails.
WritePart(file, data) ==
    IF file.kind = "unreadable" THEN {file}
    ELSE {DataFile(Overwrite(file.data, SubSeq(data, 1, n))) :
             n \in 0..Len(data)}

\* save, that is json.MarshalIndent and os.WriteFile, by a caller nobody
\* interleaves with: the file is left as it was when the cache cannot be
\* marshalled or the file cannot be opened, and as the write, whole or
\* failed, leaves it after the truncation otherwise.
save(file, cache) ==
    LET Written(marshalled) ==
            IF marshalled.err THEN {file}
            ELSE {file, WriteAll(OpenTruncate(file), marshalled.data)}
                 \cup WritePart(OpenTruncate(file), marshalled.data)
    IN Written(MarshalIndent(cache))

\* cache.Tokens[instanceID] = &TokenEntry{accessToken, time.Now()}
PutToken(cache, instanceID, accessToken, now) ==
    [cache EXCEPT !.Tokens =
        MapPut(@, instanceID, [AccessToken |-> accessToken, CreatedAt |-> now])]

\* Set by a caller nobody interleaves with: the states it may leave the file
\* in.  Its callers here drop the error it returns.
Set(file, instanceID, accessToken) ==
    LET Store(cache) ==
            IF cache.err # "nil" THEN {file}
            ELSE UNION {save(file, PutToken(cache.cache, instanceID,
                                            accessToken, now)) :
                           now \in ClockTimes}
    IN Store(load(file))

\* GetCachedTokenOrAcquire: the cached token, or on a miss an error (the e2b
\* backend, or AcquireToken fails) or a token from the control plane, which
\* acquireInstanceToken and then GetCachedTokenOrAcquire itself store with
\* Set.
GetCachedTokenOrAcquire(file, instanceID) ==
    IF Get(file, instanceID).found
    THEN {[err |-> "nil", file |-> file]}
    ELSE {[err |-> "token", file |-> file]}
         \cup {[err |-> "nil", file |-> g] :
                 g \in UNION {UNION {Set(f, instanceID, TokenString(t)) :
                                        f \in Set(file, instanceID, TokenString(t))} :
                              t \in Tokens}}

\* ConnectSandboxWithCache: whether it returned a sandbox, and the file as it
\* left it.  ConnectWithToken may fail after the token was stored.
ConnectSandboxWithCache(file, instanceID) ==
    {[ok |-> r.err = "nil" /\ connected, file |-> r.file] :
        r \in GetCachedTokenOrAcquire(file, instanceID), connected \in BOOLEAN}

\* The cache file before a command that connects to the given instance: it
\* does not exist, or it holds a token for the instance.
InstanceCacheFiles ==
    {AbsentFile}
    \cup {DataFile(MarshalIndent(
              PutToken(NewCacheData, InstanceName(GivenInstance),
                       TokenString(1), now)).data) : now \in ClockTimes}

\* The states of the file the callers of the cache start from: it does not
\* exist, it cannot be read, or it holds a token for the given instance,
\* stored at the time with the shortest text.
CacheFiles ==
    {AbsentFile, UnreadableFile}
    \cup {DataFile(MarshalIndent(
              PutToken(NewCacheData, InstanceName(GivenInstance),
                       TokenString(1), now)).data) :
             now \in {t \in ClockTimes :
                         \A other \in ClockTimes : Len(t) <= Len(other)}}

\* Nothing uses the token cache, and the cache file does not exist.
CacheIdle ==
    /\ tokenFile = AbsentFile
    /\ callers = <<>>

\* The state before runCommand has done anything.
Fresh ==
    /\ singleResult = "none"
    /\ tasks = <<>>
    /\ results = <<>>
    /\ sandbox = NoSandbox
    /\ sandboxCreateDuration = 0
    /\ killDeferred = FALSE
    /\ loopIdx = 0
    /\ maxParallel = 0
    /\ sem = 0
    /\ wg = 0
    /\ tpc = <<>>
    /\ sandboxes = <<>>
    /\ chanState = "nil"
    /\ chanBuf = <<>>
    /\ printerPc = "none"
    /\ opened = <<>>
    /\ createCalls = 0
    /\ connectCalls = 0
    /\ runCalls = <<>>
    /\ killCalls = [s \in 0..Max(MaxTasks, ScenarioTasks) |-> 0]
    /\ writes = <<>>
    /\ printed = <<>>
    /\ keptAlive = <<>>
    /\ summary = NoSummary
    /\ exitCode = NoExit

Init ==
    /\ \E in \in RunInputs :
          LET n == Len(buildTasks(in.code, FileList(in.nfiles), in.repeat,
                                  QuietEnv).tasks) IN
          /\ runCode = in.code
          /\ runFiles = FileList(in.nfiles)
          /\ runRepeat = in.repeat
          /\ runInstance = in.instance
          /\ runParallel \in (IF n <= ParallelTasks THEN BOOLEAN ELSE {FALSE})
          /\ runMaxParallel \in (IF runParallel THEN Limits(n) ELSE {0})
    /\ EnvIs(QuietEnv)
    /\ runKeepAlive \in BOOLEAN
    /\ runStream \in BOOLEAN
    /\ outputJSON \in BOOLEAN
    /\ pc = "runCommand"
    /\ Fresh
    /\ ExecIdle
    /\ tokenFile \in (IF runInstance THEN InstanceCacheFiles ELSE {AbsentFile})
    /\ callers = <<>>

----------------------------------------------------------------------------
\* runCommand

\* A command that returns an error: Execute turns it into os.Exit(1).
ExitWithError ==
    /\ pc' = "exited"
    /\ exitCode' = 1

\* runCommand without the check for -c together with -f.
runCommand_NoConflictCheck ==
    /\ pc = "runCommand"
    /\ LET built == buildTasks(runCode, runFiles, runRepeat, Env)
           n == Len(built.tasks) IN
       IF runRepeat > 1 /\ runInstance
       THEN /\ ExitWithError
            /\ UNCHANGED <<tasks, opened, runCalls, printed>>
       ELSE IF built.err # "nil" \/ n = 0
       THEN /\ ExitWithError
            /\ tasks' = built.tasks
            /\ opened' = built.opened
            /\ UNCHANGED <<runCalls, printed>>
       ELSE /\ tasks' = built.tasks
            /\ opened' = built.opened
            /\ runCalls' = [i \in 1..n |-> 0]
            /\ printed' = [i \in 1..n |-> 0]
            /\ pc' = IF n = 1 /\ runRepeat <= 1 THEN "runSingleTask"
                     ELSE IF runParallel THEN "runTasksParallel"
                     ELSE "runTasksSequential"
            /\ UNCHANGED exitCode
    /\ UNCHANGED <<flags, inputs, restVars, singleResult,
                   results, seqVars, parVars, createCalls,
                   connectCalls, killCalls, writes, keptAlive, summary>>

\* Validation, buildTasks and the choice of the runner.  --tool-name keeps its
\* default and config.Validate succeeds.
runCommand ==
    /\ pc = "runCommand"
    /\ LET built == buildTasks(runCode, runFiles, runRepeat, Env)
           n == Len(built.tasks) IN
       IF (runCode /\ Len(runFiles) > 0) \/ (runRepeat > 1 /\ runInstance)
       THEN /\ ExitWithError
            /\ UNCHANGED <<tasks, opened, runCalls, printed>>
       ELSE IF built.err # "nil" \/ n = 0
       THEN /\ ExitWithError
            /\ tasks' = built.tasks
            /\ opened' = built.opened
            /\ UNCHANGED <<runCalls, printed>>
       ELSE /\ tasks' = built.tasks
            /\ opened' = built.opened
            /\ runCalls' = [i \in 1..n |-> 0]
            /\ printed' = [i \in 1..n |-> 0]
            /\ pc' = IF n = 1 /\ runRepeat <= 1 THEN "runSingleTask"
                     ELSE IF runParallel THEN "runTasksParallel"
                     ELSE "runTasksSequential"
            /\ UNCHANGED exitCode
    /\ UNCHANGED <<flags, inputs, restVars, singleResult,
                   results, seqVars, parVars, createCalls,
                   connectCalls, killCalls, writes, keptAlive, summary>>

----------------------------------------------------------------------------
\* taskResult values

\* ErrorResult that also records the time the failed call took.
ErrorResult_Timed(t, kind) ==
    [ZeroResult EXCEPT !.task = t, !.err = kind, !.totalDuration = CreateTicks]

\* taskResult{task: task, err: fmt.Errorf("failed to ...: %w", err)}
ErrorResult(t, kind) == [ZeroResult EXCEPT !.task = t, !.err = kind]

\* The result and err RunCode hands back for an outcome.
OutcomeResult(outcome) ==
    CASE outcome = "ok" -> "ok"
      [] outcome = "execError" -> "error"
      [] outcome = "transportError" -> "nil"
OutcomeErr(outcome) == IF outcome = "transportError" THEN "run" ELSE "nil"

\* A results slot written by goroutine g.
WriteSlot(idx, r, g) ==
    /\ results' = [results EXCEPT ![idx] = r]
    /\ writes' = [writes EXCEPT ![idx] = Append(@, g)]

----------------------------------------------------------------------------
\* runTasksSequential

\* results := make(...), then the connect or create call is issued.
SeqStart ==
    /\ pc = "runTasksSequential"
    /\ results' = [i \in 1..Len(tasks) |-> ZeroResult]
    /\ writes' = [i \in 1..Len(tasks) |-> <<>>]
    /\ IF runInstance
       THEN /\ connectCalls' = connectCalls + 1
            /\ pc' = "seq_connect"
            /\ UNCHANGED createCalls
       ELSE /\ createCalls' = createCalls + 1
            /\ pc' = "seq_create"
            /\ UNCHANGED connectCalls
    /\ UNCHANGED <<flags, inputs, restVars, singleResult,
                   opened, tasks, seqVars, parVars, runCalls, killCalls, printed,
                   keptAlive, summary, exitCode>>

\* SeqFillError that stores the error for the first task only.
SeqFillError_FirstOnly(kind) ==
    /\ results' = [results EXCEPT ![1] = ErrorResult(tasks[1], kind)]
    /\ writes' = [writes EXCEPT ![1] = Append(@, MainGoroutine)]
    /\ pc' = "seq_return"

\* The acquisition failed: every slot gets the error, the function returns.
SeqFillError(kind) ==
    /\ results' = [i \in 1..Len(tasks) |-> ErrorResult(tasks[i], kind)]
    /\ writes' = [i \in 1..Len(tasks) |-> Append(writes[i], MainGoroutine)]
    /\ pc' = "seq_return"

\* ConnectSandboxWithCache fails, with the token cache as it left it.
SeqConnectFail ==
    /\ pc = "seq_connect"
    /\ \E r \in ConnectSandboxWithCache(tokenFile, InstanceName(GivenInstance)) :
          ~r.ok /\ tokenFile' = r.file
    /\ SeqFillError("connect")
    /\ UNCHANGED <<flags, inputs, execVars, callers, singleResult,
                   opened, tasks, seqVars, parVars, createCalls, connectCalls,
                   runCalls, killCalls, printed, keptAlive, summary, exitCode>>

\* ConnectSandboxWithCache returns the sandbox; a token it had to acquire is
\* in the token cache unless the cache could not be written.
SeqConnectOk ==
    /\ pc = "seq_connect"
    /\ \E r \in ConnectSandboxWithCache(tokenFile, InstanceName(GivenInstance)) :
          r.ok /\ tokenFile' = r.file
    /\ sandbox' = ExistingInstance
    /\ loopIdx' = 1
    /\ pc' = "seq_loop"
    /\ UNCHANGED <<flags, inputs, execVars, callers, singleResult,
                   opened, tasks, results, sandboxCreateDuration, killDeferred,
                   parVars, effects>>

SeqCreateFail ==
    /\ pc = "seq_create"
    /\ sandboxCreateDuration' = CreateTicks
    /\ SeqFillError("create")
    /\ UNCHANGED <<flags, inputs, restVars, singleResult,
                   opened, tasks, sandbox, killDeferred, loopIdx, parVars,
                   createCalls, connectCalls, runCalls, killCalls, printed,
                   keptAlive, summary, exitCode>>

\* The sandbox exists: report it when kept alive, else defer its Kill.
SeqCreateOk ==
    /\ pc = "seq_create"
    /\ sandbox' = 1
    /\ sandboxCreateDuration' = CreateTicks
    /\ IF runKeepAlive
       THEN /\ keptAlive' = Append(keptAlive, <<1>>)
            /\ UNCHANGED killDeferred
       ELSE /\ killDeferred' = TRUE
            /\ UNCHANGED keptAlive
    /\ loopIdx' = 1
    /\ pc' = "seq_loop"
    /\ UNCHANGED <<flags, inputs, restVars, singleResult,
                   opened, tasks, results, parVars, createCalls, connectCalls,
                   runCalls, killCalls, writes, printed, summary, exitCode>>

\* SeqRunCode that creates a sandbox of its own for every task.
SeqRunCode_CreatesPerTask ==
    /\ pc = "seq_loop"
    /\ createCalls' = createCalls + 1
    /\ runCalls' = [runCalls EXCEPT ![loopIdx] = @ + 1]
    /\ pc' = "seq_running"
    /\ UNCHANGED <<flags, inputs, restVars, singleResult,
                   opened, tasks, results, seqVars, parVars, connectCalls,
                   killCalls, writes, printed, keptAlive, summary, exitCode>>

\* SeqRunCode that starts the next task's RunCode together with this one.
SeqRunCode_StartsNext ==
    /\ pc = "seq_loop"
    /\ runCalls' = [j \in 1..Len(runCalls) |->
                       IF j \in {loopIdx, loopIdx + 1}
                       THEN runCalls[j] + 1 ELSE runCalls[j]]
    /\ pc' = "seq_running"
    /\ UNCHANGED <<flags, inputs, restVars, singleResult,
                   opened, tasks, results, seqVars, parVars, createCalls,
                   connectCalls, killCalls, writes, printed, keptAlive, summary,
                   exitCode>>

\* The loop body calls RunCode for the task at loopIdx.
SeqRunCode ==
    /\ pc = "seq_loop"
    /\ runCalls' = [runCalls EXCEPT ![loopIdx] = @ + 1]
    /\ pc' = "seq_running"
    /\ UNCHANGED <<flags, inputs, restVars, singleResult,
                   opened, tasks, results, seqVars, parVars, createCalls,
                   connectCalls, killCalls, writes, printed, keptAlive, summary,
                   exitCode>>

\* SeqResult that charges the creation time to every task.
SeqResult_CreateOnAll(i, outcome, execDuration) ==
    [task |-> tasks[i], result |-> OutcomeResult(outcome),
     err |-> OutcomeErr(outcome), createDuration |-> sandboxCreateDuration,
     execDuration |-> execDuration,
     totalDuration |-> sandboxCreateDuration + execDuration]

\* The taskResult of the loop body for task i.
SeqResult(i, outcome, execDuration) ==
    LET r == [task |-> tasks[i], result |-> OutcomeResult(outcome),
              err |-> OutcomeErr(outcome), createDuration |-> 0,
              execDuration |-> execDuration, totalDuration |-> execDuration] IN
    IF i = 1 /\ sandboxCreateDuration > 0
    THEN [r EXCEPT !.createDuration = sandboxCreateDuration,
                   !.totalDuration = sandboxCreateDuration + execDuration]
    ELSE r

\* SeqRunDone in a loop that breaks at the first task that fails.
SeqRunDone_StopsOnError ==
    /\ pc = "seq_running"
    /\ \E outcome \in RunOutcomes :
          /\ WriteSlot(loopIdx, SeqResult(loopIdx, outcome, RunTicks), MainGoroutine)
          /\ pc' = IF loopIdx < Len(tasks) /\ outcome = "ok"
                   THEN "seq_loop" ELSE "seq_return"
    /\ loopIdx' = loopIdx + 1
    /\ UNCHANGED <<flags, inputs, restVars, singleResult,
                   opened, tasks, sandbox, sandboxCreateDuration, killDeferred,
                   parVars, createCalls, connectCalls, runCalls, killCalls,
                   printed, keptAlive, summary, exitCode>>

\* RunCode returns, the result is stored and the loop moves on.
SeqRunDone ==
    /\ pc = "seq_running"
    /\ \E outcome \in RunOutcomes :
          WriteSlot(loopIdx, SeqResult(loopIdx, outcome, RunTicks), MainGoroutine)
    /\ loopIdx' = loopIdx + 1
    /\ pc' = IF loopIdx < Len(tasks) THEN "seq_loop" ELSE "seq_return"
    /\ UNCHANGED <<flags, inputs, restVars, singleResult,
                   opened, tasks, sandbox, sandboxCreateDuration, killDeferred,
                   parVars, createCalls, connectCalls, runCalls, killCalls,
                   printed, keptAlive, summary, exitCode>>

\* SeqReturn of a runner whose deferred Kill never runs.
SeqReturn_SkipsDeferred ==
    /\ pc = "seq_return"
    /\ pc' = "print"
    /\ UNCHANGED <<flags, inputs, restVars, singleResult,
                   opened, tasks, results, seqVars, parVars, effects>>

\* return results: the deferred Kill, when registered, runs first.
SeqReturn ==
    /\ pc = "seq_return"
    /\ killCalls' = IF killDeferred
                    THEN [killCalls EXCEPT ![sandbox] = @ + 1]
                    ELSE killCalls
    /\ pc' = "print"
    /\ UNCHANGED <<flags, inputs, restVars, singleResult,
                   opened, tasks, results, seqVars, parVars, createCalls,
                   connectCalls, runCalls, writes, printed, keptAlive, summary,
                   exitCode>>

runTasksSequential ==
    \/ SeqStart
    \/ SeqConnectFail
    \/ SeqConnectOk
    \/ SeqCreateFail
    \/ SeqCreateOk
    \/ SeqRunCode
    \/ SeqRunDone
    \/ SeqReturn

----------------------------------------------------------------------------
\* runTasksParallel

\* The capacity of the semaphore channel.
EffectiveLimit(limit, n) == IF limit <= 0 \/ limit > n THEN n ELSE limit

\* A send on resultChan (a no-op when the channel is nil).
Publish(r) ==
    chanBuf' = IF chanState = "nil" THEN chanBuf ELSE Append(chanBuf, r)

\* results, sem and resultChan are made, the printing goroutine is started in
\* text mode without --stream, and one goroutine per task is started.
ParStart ==
    /\ pc = "runTasksParallel"
    /\ results' = [i \in 1..Len(tasks) |-> ZeroResult]
    /\ writes' = [i \in 1..Len(tasks) |-> <<>>]
    /\ maxParallel' = EffectiveLimit(runMaxParallel, Len(tasks))
    /\ sem' = 0
    /\ IF ~outputJSON /\ ~runStream
       THEN chanState' = "open" /\ printerPc' = "running"
       ELSE chanState' = "nil" /\ printerPc' = "none"
    /\ chanBuf' = <<>>
    /\ sandboxes' = <<>>
    /\ wg' = Len(tasks)
    /\ tpc' = [i \in 1..Len(tasks) |-> "pending"]
    /\ pc' = "par_wait"
    /\ UNCHANGED <<flags, inputs, restVars, singleResult,
                   opened, tasks, seqVars, createCalls, connectCalls, runCalls,
                   killCalls, printed, keptAlive, summary, exitCode>>

\* ParAcquire without the semaphore: the goroutine calls code.Create at once.
ParAcquire_NoGate(idx) ==
    /\ tpc[idx] = "pending"
    /\ sem' = sem + 1
    /\ createCalls' = createCalls + 1
    /\ tpc' = [tpc EXCEPT ![idx] = "acquiring"]
    /\ UNCHANGED <<flags, inputs, restVars, singleResult,
                   opened, pc, tasks, results, seqVars, maxParallel, wg, sandboxes,
                   chanState, chanBuf, printerPc, connectCalls, runCalls,
                   killCalls, writes, printed, keptAlive, summary, exitCode>>

\* sem <- struct{}{} succeeds and code.Create is called.
ParAcquire(idx) ==
    /\ tpc[idx] = "pending"
    /\ sem < maxParallel
    /\ sem' = sem + 1
    /\ createCalls' = createCalls + 1
    /\ tpc' = [tpc EXCEPT ![idx] = "acquiring"]
    /\ UNCHANGED <<flags, inputs, restVars, singleResult,
                   opened, pc, tasks, results, seqVars, maxParallel, wg, sandboxes,
                   chanState, chanBuf, printerPc, connectCalls, runCalls,
                   killCalls, writes, printed, keptAlive, summary, exitCode>>

\* The taskResult of a goroutine whose Create failed after `elapsed` ticks.
ParCreateFailResult(t, elapsed) ==
    [ErrorResult(t, "create") EXCEPT !.totalDuration = elapsed]

\* Where a goroutine stands once its result is stored: before the send on
\* resultChan, or past it when the channel is nil and the send is skipped.
AfterStore == IF chanState = "nil" THEN "sent" ELSE "stored"

\* ParCreateFail in a goroutine that returns without the deferred <-sem.
ParCreateFail_NoRelease(idx) ==
    /\ tpc[idx] = "acquiring"
    /\ LET r == ParCreateFailResult(tasks[idx], CreateTicks) IN
          /\ WriteSlot(idx, r, idx)
          /\ Publish(r)
    /\ wg' = wg - 1
    /\ tpc' = [tpc EXCEPT ![idx] = "done"]
    /\ UNCHANGED <<flags, inputs, restVars, singleResult,
                   opened, pc, tasks, seqVars, maxParallel, sem, sandboxes,
                   chanState, printerPc, createCalls, connectCalls, runCalls,
                   killCalls, printed, keptAlive, summary, exitCode>>

\* code.Create fails: the error is stored in the goroutine's slot under
\* resultsMu.
ParCreateFail(idx) ==
    /\ tpc[idx] = "acquiring"
    /\ WriteSlot(idx, ParCreateFailResult(tasks[idx], CreateTicks), idx)
    /\ tpc' = [tpc EXCEPT ![idx] = AfterStore]
    /\ UNCHANGED <<flags, inputs, restVars, singleResult,
                   opened, pc, tasks, seqVars, maxParallel, sem, wg, sandboxes,
                   chanState, chanBuf, printerPc, createCalls, connectCalls,
                   runCalls, killCalls, printed, keptAlive, summary, exitCode>>

\* Track that appends the sandbox twice.
Track_Twice(list, id) == list \o <<id, id>>

\* Track without sandboxesMu: an append made from a stale copy of the slice
\* loses the sandboxes appended meanwhile.
Track_LostAppends(list, id) == <<id>>

\* sandboxes = append(sandboxes, sandbox): the slice is in the order in which
\* the goroutines took sandboxesMu.
Track(list, id) == Append(list, id)

\* code.Create succeeds: the sandbox, named after its goroutine, is appended
\* to sandboxes under sandboxesMu.
ParCreateOk(idx) ==
    /\ tpc[idx] = "acquiring"
    /\ sandboxes' = Track(sandboxes, idx)
    /\ tpc' = [tpc EXCEPT ![idx] = "tracked"]
    /\ UNCHANGED <<flags, inputs, restVars, singleResult,
                   opened, pc, tasks, results, seqVars, maxParallel, sem, wg,
                   chanState, chanBuf, printerPc, effects>>

\* RunCode is called on the goroutine's sandbox.
ParRunCode(idx) ==
    /\ tpc[idx] = "tracked"
    /\ runCalls' = [runCalls EXCEPT ![idx] = @ + 1]
    /\ tpc' = [tpc EXCEPT ![idx] = "running"]
    /\ UNCHANGED <<flags, inputs, restVars, singleResult,
                   opened, pc, tasks, results, seqVars, maxParallel, sem, wg,
                   sandboxes, chanState, chanBuf, printerPc, createCalls,
                   connectCalls, killCalls, writes, printed, keptAlive, summary,
                   exitCode>>

\* ParResult in a goroutine that reads the loop's task variable instead of
\* its own argument: by then the loop is at its last task.
ParResult_LoopVariable(t, outcome, createDuration, execDuration, elapsed) ==
    [task |-> tasks[Len(tasks)], result |-> OutcomeResult(outcome),
     err |-> OutcomeErr(outcome), createDuration |-> createDuration,
     execDuration |-> execDuration, totalDuration |-> elapsed]

\* The taskResult of a goroutine whose RunCode returned `elapsed` ticks after
\* taskStart.
ParResult(t, outcome, createDuration, execDuration, elapsed) ==
    [task |-> t, result |-> OutcomeResult(outcome), err |-> OutcomeErr(outcome),
     createDuration |-> createDuration, execDuration |-> execDuration,
     totalDuration |-> elapsed]

\* RunCode returns: the result is stored in the goroutine's slot under
\* resultsMu.  totalDuration is read from the clock on its own: it is the
\* two measured durations and the time the goroutine spent between them,
\* waiting for sandboxesMu.
ParRunDone(idx) ==
    /\ tpc[idx] = "running"
    /\ \E outcome \in RunOutcomes, wait \in {0, LockTicks} :
          WriteSlot(idx, ParResult(tasks[idx], outcome, CreateTicks, RunTicks,
                                   CreateTicks + wait + RunTicks), idx)
    /\ tpc' = [tpc EXCEPT ![idx] = AfterStore]
    /\ UNCHANGED <<flags, inputs, restVars, singleResult,
                   opened, pc, tasks, seqVars, maxParallel, sem, wg, sandboxes,
                   chanState, chanBuf, printerPc, createCalls, connectCalls,
                   runCalls, killCalls, printed, keptAlive, summary, exitCode>>

\* resultChan <- r: the goroutine sends the result it stored.
ParSend(idx) ==
    /\ tpc[idx] = "stored"
    /\ Publish(results[idx])
    /\ tpc' = [tpc EXCEPT ![idx] = "sent"]
    /\ UNCHANGED <<flags, inputs, restVars, singleResult,
                   opened, pc, tasks, results, seqVars, maxParallel, sem, wg,
                   sandboxes, chanState, printerPc, effects>>

\* The goroutine returns: the deferred <-sem runs first.
ParRelease(idx) ==
    /\ tpc[idx] = "sent"
    /\ sem' = sem - 1
    /\ tpc' = [tpc EXCEPT ![idx] = "released"]
    /\ UNCHANGED <<flags, inputs, restVars, singleResult,
                   opened, pc, tasks, results, seqVars, maxParallel, wg,
                   sandboxes, chanState, chanBuf, printerPc, effects>>

\* The goroutine ends without calling wg.Done().
ParTaskReturn_NoDone(idx) ==
    /\ tpc[idx] = "released"
    /\ tpc' = [tpc EXCEPT ![idx] = "done"]
    /\ UNCHANGED <<flags, inputs, restVars, singleResult,
                   opened, pc, tasks, results, seqVars, maxParallel, sem, wg,
                   sandboxes, chanState, chanBuf, printerPc, effects>>

\* The deferred wg.Done() runs and the goroutine ends.
ParTaskReturn(idx) ==
    /\ tpc[idx] = "released"
    /\ wg' = wg - 1
    /\ tpc' = [tpc EXCEPT ![idx] = "done"]
    /\ UNCHANGED <<flags, inputs, restVars, singleResult,
                   opened, pc, tasks, results, seqVars, maxParallel, sem,
                   sandboxes, chanState, chanBuf, printerPc, effects>>

\* The printing goroutine receives a result and prints it.
PrinterReceive ==
    /\ printerPc = "running"
    /\ Len(chanBuf) > 0
    /\ LET r == Head(chanBuf) IN
          \E i \in 1..Len(tasks) :
             /\ tasks[i] = r.task
             /\ printed' = [printed EXCEPT ![i] = @ + 1]
    /\ chanBuf' = Tail(chanBuf)
    /\ UNCHANGED <<flags, inputs, restVars, singleResult,
                   opened, pc, tasks, results, seqVars, maxParallel, sem, wg, tpc,
                   sandboxes, chanState, printerPc, createCalls, connectCalls,
                   runCalls, killCalls, writes, keptAlive, summary, exitCode>>

\* The range over the closed and drained resultChan ends; printWg.Done().
PrinterExit ==
    /\ printerPc = "running"
    /\ Len(chanBuf) = 0
    /\ chanState = "closed"
    /\ printerPc' = "done"
    /\ UNCHANGED <<flags, inputs, restVars, singleResult,
                   opened, pc, tasks, results, seqVars, maxParallel, sem, wg, tpc,
                   sandboxes, chanState, chanBuf, effects>>

\* ParWaitDone of a runner that closes resultChan without wg.Wait().
ParWaitDone_ClosesEarly ==
    /\ pc = "par_wait"
    /\ IF chanState = "nil"
       THEN pc' = "par_cleanup" /\ UNCHANGED chanState
       ELSE pc' = "par_printwait" /\ chanState' = "closed"
    /\ loopIdx' = 1
    /\ UNCHANGED <<flags, inputs, restVars, singleResult,
                   opened, tasks, results, sandbox, sandboxCreateDuration,
                   killDeferred, maxParallel, sem, wg, tpc, sandboxes, chanBuf,
                   printerPc, effects>>

\* wg.Wait() returns; resultChan, when made, is closed.
ParWaitDone ==
    /\ pc = "par_wait"
    /\ wg = 0
    /\ IF chanState = "nil"
       THEN pc' = "par_cleanup" /\ UNCHANGED chanState
       ELSE pc' = "par_printwait" /\ chanState' = "closed"
    /\ loopIdx' = 1
    /\ UNCHANGED <<flags, inputs, restVars, singleResult,
                   opened, tasks, results, sandbox, sandboxCreateDuration,
                   killDeferred, maxParallel, sem, wg, tpc, sandboxes, chanBuf,
                   printerPc, effects>>

\* printWg.Wait() returns.
ParPrintWaitDone ==
    /\ pc = "par_printwait"
    /\ printerPc = "done"
    /\ pc' = "par_cleanup"
    /\ UNCHANGED <<flags, inputs, restVars, singleResult,
                   opened, tasks, results, seqVars, parVars, effects>>

\* ParKill in a cleanup that does not look at --keep-alive.
ParKill_IgnoreKeepAlive ==
    /\ pc = "par_cleanup"
    /\ loopIdx <= Len(sandboxes)
    /\ killCalls' = [killCalls EXCEPT ![sandboxes[loopIdx]] = @ + 1]
    /\ loopIdx' = loopIdx + 1
    /\ UNCHANGED <<flags, inputs, restVars, singleResult,
                   opened, pc, tasks, results, sandbox, sandboxCreateDuration,
                   killDeferred, parVars, createCalls, connectCalls, runCalls,
                   writes, printed, keptAlive, summary, exitCode>>

\* One pass of the cleanup loop: Kill on the next tracked sandbox.
ParKill ==
    /\ pc = "par_cleanup"
    /\ ~runKeepAlive
    /\ loopIdx <= Len(sandboxes)
    /\ killCalls' = [killCalls EXCEPT ![sandboxes[loopIdx]] = @ + 1]
    /\ loopIdx' = loopIdx + 1
    /\ UNCHANGED <<flags, inputs, restVars, singleResult,
                   opened, pc, tasks, results, sandbox, sandboxCreateDuration,
                   killDeferred, parVars, createCalls, connectCalls, runCalls,
                   writes, printed, keptAlive, summary, exitCode>>

\* The cleanup is over (or, with --keep-alive, the created instances are
\* reported in one message) and results is returned.
ParReturn ==
    /\ pc = "par_cleanup"
    /\ IF runKeepAlive
       THEN keptAlive' = IF Len(sandboxes) > 0
                         THEN Append(keptAlive, sandboxes)
                         ELSE keptAlive
       ELSE loopIdx > Len(sandboxes) /\ UNCHANGED keptAlive
    /\ pc' = "print"
    /\ UNCHANGED <<flags, inputs, restVars, singleResult,
                   opened, tasks, results, seqVars, parVars, createCalls,
                   connectCalls, runCalls, killCalls, writes, printed, summary,
                   exitCode>>

runTasksParallel ==
    \/ ParStart
    \/ \E idx \in 1..Len(tpc) : ParAcquire(idx)
    \/ \E idx \in 1..Len(tpc) : ParCreateFail(idx)
    \/ \E idx \in 1..Len(tpc) : ParCreateOk(idx)
    \/ \E idx \in 1..Len(tpc) : ParRunCode(idx)
    \/ \E idx \in 1..Len(tpc) : ParRunDone(idx)
    \/ \E idx \in 1..Len(tpc) : ParSend(idx)
    \/ \E idx \in 1..Len(tpc) : ParRelease(idx)
    \/ \E idx \in 1..Len(tpc) : ParTaskReturn(idx)
    \/ PrinterReceive
    \/ PrinterExit
    \/ ParWaitDone
    \/ ParPrintWaitDone
    \/ ParKill
    \/ ParReturn

----------------------------------------------------------------------------
\* printMultiTaskResults

\* IsFailed that looks at the transport error only.
IsFailed_ErrOnly(r) == r.err # "nil"

\* The test of the first counting loop (and of printSingleTaskResult).
IsFailed(r) == r.err # "nil" \/ (r.result # "nil" /\ r.result = "error")

\* The first counting loop, from position i on.
RECURSIVE CountLoop(_, _, _)
CountLoop(rs, i, acc) ==
    IF i > Len(rs) THEN acc
    ELSE CountLoop(rs, i + 1,
            IF IsFailed(rs[i])
            THEN [acc EXCEPT !.failed = @ + 1]
            ELSE [acc EXCEPT !.success = @ + 1])

\* The second counting loop, counting a result without error and without
\* Execution as failed.
RecountLoop_NilResultFails(rs, i, acc) ==
    LET bad == {j \in i..Len(rs) : rs[j].err # "nil" \/ rs[j].result # "ok"} IN
    [success |-> acc.success + (Len(rs) - i + 1) - Cardinality(bad),
     failed |-> acc.failed + Cardinality(bad)]

\* The second counting loop (JSON mode or sequential text mode).
RECURSIVE RecountLoop(_, _, _)
RecountLoop(rs, i, acc) ==
    IF i > Len(rs) THEN acc
    ELSE RecountLoop(rs, i + 1,
            IF rs[i].err # "nil" THEN [acc EXCEPT !.failed = @ + 1]
            ELSE IF rs[i].result # "nil"
                 THEN IF rs[i].result = "error"
                      THEN [acc EXCEPT !.failed = @ + 1]
                      ELSE [acc EXCEPT !.success = @ + 1]
                 ELSE [acc EXCEPT !.success = @ + 1])

NoCounts == [success |-> 0, failed |-> 0]

\* output.TaskSummary{Total: len(results), Success: ..., Failed: ...}
TaskSummary(rs, counts) ==
    [total |-> Len(rs), success |-> counts.success, failed |-> counts.failed]

\* ExitCodeFor without the test for total failure.
ExitCodeFor_NoTotalFailure(failed, total) == IF failed > 0 THEN 1 ELSE 0

\* The exit code the `if failed > 0 { ... os.Exit }` block ends the process
\* with, or 0 when the function returns nil.
ExitCodeFor(failed, total) ==
    IF failed > 0 THEN (IF failed = total THEN 2 ELSE 1) ELSE 0

\* Streaming mode: only the summary is printed, to stderr.
PrintStreamSummary ==
    /\ pc = "print"
    /\ runStream
    /\ LET counts == CountLoop(results, 1, NoCounts) IN
          /\ summary' = TaskSummary(results, counts)
          /\ exitCode' = ExitCodeFor(counts.failed, Len(results))
    /\ pc' = "exited"
    /\ UNCHANGED <<flags, inputs, restVars, singleResult,
                   opened, tasks, results, seqVars, parVars, createCalls,
                   connectCalls, runCalls, killCalls, writes, printed, keptAlive>>

\* Text mode after a parallel run: only the summary is printed.
PrintParallelSummary ==
    /\ pc = "print"
    /\ ~runStream
    /\ ~outputJSON /\ runParallel
    /\ LET counts == CountLoop(results, 1, NoCounts) IN
          /\ summary' = TaskSummary(results, counts)
          /\ exitCode' = ExitCodeFor(counts.failed, Len(results))
    /\ pc' = "exited"
    /\ UNCHANGED <<flags, inputs, restVars, singleResult,
                   opened, tasks, results, seqVars, parVars, createCalls,
                   connectCalls, runCalls, killCalls, writes, printed, keptAlive>>

\* JSON mode or sequential text mode: the formatter prints every task and the
\* recounted summary.
PrintAllResults ==
    /\ pc = "print"
    /\ ~runStream
    /\ ~(~outputJSON /\ runParallel)
    /\ LET counts == RecountLoop(results, 1, NoCounts) IN
          /\ summary' = TaskSummary(results, counts)
          /\ exitCode' = ExitCodeFor(counts.failed, Len(results))
    /\ printed' = [i \in 1..Len(results) |-> printed[i] + 1]
    /\ pc' = "exited"
    /\ UNCHANGED <<flags, inputs, restVars, singleResult,
                   opened, tasks, results, seqVars, parVars, createCalls,
                   connectCalls, runCalls, killCalls, writes, keptAlive>>

\* JSON mode or sequential text mode: PrintMultiTaskResult returns an error,
\* which printMultiTaskResults returns to Execute.
PrintAllResultsError ==
    /\ pc = "print"
    /\ ~runStream
    /\ ~(~outputJSON /\ runParallel)
    /\ ExitWithError
    /\ UNCHANGED <<flags, inputs, restVars, singleResult,
                   opened, tasks, results, seqVars, parVars, createCalls,
                   connectCalls, runCalls, killCalls, writes, printed, keptAlive,
                   summary>>

printMultiTaskResults ==
    \/ PrintStreamSummary
    \/ PrintParallelSummary
    \/ PrintAllResults
    \/ PrintAllResultsError

----------------------------------------------------------------------------
\* runSingleTask

\* The connect or create call is issued.
SingleStart ==
    /\ pc = "runSingleTask"
    /\ IF runInstance
       THEN /\ connectCalls' = connectCalls + 1
            /\ pc' = "single_connect"
            /\ UNCHANGED createCalls
       ELSE /\ createCalls' = createCalls + 1
            /\ pc' = "single_create"
            /\ UNCHANGED connectCalls
    /\ UNCHANGED <<flags, inputs, restVars, singleResult,
                   opened, tasks, results, seqVars, parVars, runCalls, killCalls,
                   writes, printed, keptAlive, summary, exitCode>>

\* Connect or create fails: the error is returned, nothing is deferred yet.
SingleAcquireFail ==
    /\ pc \in {"single_connect", "single_create"}
    /\ IF pc = "single_connect"
       THEN \E r \in ConnectSandboxWithCache(tokenFile, InstanceName(GivenInstance)) :
               ~r.ok /\ tokenFile' = r.file
       ELSE UNCHANGED tokenFile
    /\ ExitWithError
    /\ UNCHANGED <<flags, inputs, execVars, callers, singleResult,
                   opened, tasks, results, seqVars, parVars, createCalls,
                   connectCalls, runCalls, killCalls, writes, printed, keptAlive,
                   summary>>

\* ConnectSandboxWithCache returns the sandbox, with the token cache as it
\* left it, and RunCode is called.
SingleConnectOk ==
    /\ pc = "single_connect"
    /\ \E r \in ConnectSandboxWithCache(tokenFile, InstanceName(GivenInstance)) :
          r.ok /\ tokenFile' = r.file
    /\ sandbox' = ExistingInstance
    /\ runCalls' = [runCalls EXCEPT ![1] = @ + 1]
    /\ pc' = "single_running"
    /\ UNCHANGED <<flags, inputs, execVars, callers, singleResult,
                   opened, tasks, results, sandboxCreateDuration, killDeferred,
                   loopIdx, parVars, createCalls, connectCalls, killCalls, writes,
                   printed, keptAlive, summary, exitCode>>

SingleCreateOk ==
    /\ pc = "single_create"
    /\ sandbox' = 1
    /\ sandboxCreateDuration' = CreateTicks
    /\ IF runKeepAlive
       THEN /\ keptAlive' = Append(keptAlive, <<1>>)
            /\ UNCHANGED killDeferred
       ELSE /\ killDeferred' = TRUE
            /\ UNCHANGED keptAlive
    /\ runCalls' = [runCalls EXCEPT ![1] = @ + 1]
    /\ pc' = "single_running"
    /\ UNCHANGED <<flags, inputs, restVars, singleResult,
                   opened, tasks, results, loopIdx, parVars, createCalls,
                   connectCalls, killCalls, writes, printed, summary, exitCode>>

\* RunCode returns.  A transport error is returned as the command's error.
\* Otherwise the function returns nil after the streamed output, or prints
\* the result with PrintExecResult and returns that call's error.
SingleRunDone ==
    /\ pc = "single_running"
    /\ \E outcome \in RunOutcomes, printOk \in BOOLEAN :
          /\ singleResult' = outcome
          /\ IF outcome = "transportError"
             THEN pc' = "single_return_err" /\ UNCHANGED printed
             ELSE IF runStream
             THEN pc' = "single_return_nil" /\ UNCHANGED printed
             ELSE IF ~printOk
             THEN pc' = "single_return_err" /\ UNCHANGED printed
             ELSE /\ pc' = "single_return_nil"
                  /\ printed' = [printed EXCEPT ![1] = @ + 1]
    /\ UNCHANGED <<flags, inputs, restVars, opened, tasks, results, seqVars,
                   parVars, createCalls,
                   connectCalls, runCalls, killCalls, writes, keptAlive, summary,
                   exitCode>>

\* SingleReturn whose Kill runs only when the function returns nil.
SingleReturn_KillOnSuccessOnly ==
    /\ pc \in {"single_return_err", "single_return_nil"}
    /\ killCalls' = IF killDeferred /\ pc = "single_return_nil"
                    THEN [killCalls EXCEPT ![sandbox] = @ + 1]
                    ELSE killCalls
    /\ exitCode' = IF pc = "single_return_err" THEN 1 ELSE 0
    /\ pc' = "exited"
    /\ UNCHANGED <<flags, inputs, restVars, singleResult, opened, tasks, results,
                   seqVars, parVars, createCalls, connectCalls, runCalls, writes,
                   printed, keptAlive, summary>>

\* The function returns: the deferred Kill, when registered, runs, and the
\* process ends with 1 for an error and 0 for nil.
SingleReturn ==
    /\ pc \in {"single_return_err", "single_return_nil"}
    /\ killCalls' = IF killDeferred
                    THEN [killCalls EXCEPT ![sandbox] = @ + 1]
                    ELSE killCalls
    /\ exitCode' = IF pc = "single_return_err" THEN 1 ELSE 0
    /\ pc' = "exited"
    /\ UNCHANGED <<flags, inputs, restVars, singleResult,
                   opened, tasks, results, seqVars, parVars, createCalls,
                   connectCalls, runCalls, writes, printed, keptAlive, summary>>

runSingleTask ==
    \/ SingleStart
    \/ SingleAcquireFail
    \/ SingleConnectOk
    \/ SingleCreateOk
    \/ SingleRunDone
    \/ SingleReturn

----------------------------------------------------------------------------
\* The run command

Next ==
    \/ runCommand
    \/ runSingleTask
    \/ runTasksSequential
    \/ runTasksParallel
    \/ printMultiTaskResults

Spec == Init /\ [][Next]_vars

\* The run command without --parallel: a single task, or the sequential
\* runner and what printMultiTaskResults does after it.
InitSerial == Init /\ ~runParallel

NextSerial ==
    \/ runCommand
    \/ runSingleTask
    \/ runTasksSequential
    \/ PrintStreamSummary
    \/ PrintAllResults
    \/ PrintAllResultsError

SpecSerial == InitSerial /\ [][NextSerial]_vars

----------------------------------------------------------------------------
\* Parallel runs with --stream: resultChan stays nil, no printing goroutine
\* is started, and printMultiTaskResults prints the summary only.

runTasksParallelStream ==
    \/ ParStart
    \/ \E idx \in 1..Len(tpc) : ParAcquire(idx)
    \/ \E idx \in 1..Len(tpc) : ParCreateFail(idx)
    \/ \E idx \in 1..Len(tpc) : ParCreateOk(idx)
    \/ \E idx \in 1..Len(tpc) : ParRunCode(idx)
    \/ \E idx \in 1..Len(tpc) : ParRunDone(idx)
    \/ \E idx \in 1..Len(tpc) : ParRelease(idx)
    \/ \E idx \in 1..Len(tpc) : ParTaskReturn(idx)
    \/ ParWaitDone
    \/ ParKill
    \/ ParReturn

NextStream ==
    \/ runCommand
    \/ runTasksParallelStream
    \/ PrintStreamSummary

\* `ags run -c CODE -n MaxTasks -p --stream`, with any --max-parallel, with
\* and without --keep-alive.
InitParallel ==
    /\ runCode = TRUE
    /\ runFiles = <<>>
    /\ runRepeat = MaxTasks
    /\ runInstance = FALSE
    /\ runParallel = TRUE
    /\ runMaxParallel \in Limits(MaxTasks)
    /\ EnvIs(QuietEnv)
    /\ runKeepAlive \in BOOLEAN
    /\ runStream = TRUE
    /\ outputJSON = FALSE
    /\ pc = "runCommand"
    /\ Fresh
    /\ ExecIdle
    /\ CacheIdle

SpecParallel == InitParallel /\ [][NextStream]_vars

\* The scenario run: `ags run -c CODE -n ScenarioTasks -p --max-parallel
\* ScenarioLimit --stream`.
InitScenario ==
    /\ runCode = TRUE
    /\ runFiles = <<>>
    /\ runRepeat = ScenarioTasks
    /\ runInstance = FALSE
    /\ runParallel = TRUE
    /\ runMaxParallel = ScenarioLimit
    /\ EnvIs(QuietEnv)
    /\ runKeepAlive = FALSE
    /\ runStream = TRUE
    /\ outputJSON = FALSE
    /\ pc = "runCommand"
    /\ Fresh
    /\ ExecIdle
    /\ CacheIdle

SpecScenario == InitScenario /\ [][NextStream]_vars

----------------------------------------------------------------------------
\* printMultiTaskResults on its own: every results slice of two to MaxResults
\* entries (runCommand hands a single task to runSingleTask), each entry any
\* combination of err and result.

ResultKinds ==
    {[ZeroResult EXCEPT !.err = e, !.result = x] :
        e \in {"nil", "create", "run"}, x \in {"nil", "ok", "error"}}

InitAggregate ==
    /\ runCode = FALSE
    /\ runInstance = FALSE
    /\ runRepeat = 1
    /\ runMaxParallel = 0
    /\ runKeepAlive = FALSE
    /\ runParallel \in BOOLEAN
    /\ runStream \in BOOLEAN
    /\ outputJSON \in BOOLEAN
    /\ \E n \in 2..MaxResults :
          /\ runFiles = FileList(n)
          /\ tasks = buildTasks(FALSE, FileList(n), 1, QuietEnv).tasks
          /\ \E kinds \in [1..n -> ResultKinds] :
                results = [i \in 1..n |-> [kinds[i] EXCEPT !.task = tasks[i]]]
          /\ runCalls = [i \in 1..n |-> 0]
          /\ printed = [i \in 1..n |-> 0]
          /\ writes = [i \in 1..n |-> <<>>]
    /\ EnvIs(QuietEnv)
    /\ opened = [i \in 1..Len(runFiles) |-> FileSource(runFiles[i])]
    /\ pc = "print"
    /\ singleResult = "none"
    /\ ExecIdle
    /\ CacheIdle
    /\ sandbox = NoSandbox
    /\ sandboxCreateDuration = 0
    /\ killDeferred = FALSE
    /\ loopIdx = 0
    /\ maxParallel = 0
    /\ sem = 0
    /\ wg = 0
    /\ tpc = <<>>
    /\ sandboxes = <<>>
    /\ chanState = "nil"
    /\ chanBuf = <<>>
    /\ printerPc = "none"
    /\ createCalls = 0
    /\ connectCalls = 0
    /\ killCalls = [s \in 0..Max(MaxTasks, ScenarioTasks) |-> 0]
    /\ keptAlive = <<>>
    /\ summary = NoSummary
    /\ exitCode = NoExit

NextAggregate == printMultiTaskResults

SpecAggregate == InitAggregate /\ [][NextAggregate]_vars

----------------------------------------------------------------------------
\* buildTasks on its own: every source, repeat count and file failure

\* The -f lists: up to MaxFiles different files, in any order.
FileLists ==
    UNION {{fl \in [1..k -> 1..MaxFiles] :
               \A a, b \in 1..k : a # b => fl[a] # fl[b]} : k \in 0..MaxFiles}

\* What reading standard input, or openEditor, gives.
InputOutcomes == {"empty", "code", "error"}

InitBuild ==
    /\ runCode \in BOOLEAN
    /\ runFiles \in FileLists
    /\ runRepeat \in 0..MaxRepeat
    /\ runInstance \in BOOLEAN
    /\ runParallel = FALSE
    /\ runMaxParallel = 0
    /\ runKeepAlive = FALSE
    /\ runStream = FALSE
    /\ outputJSON = FALSE
    /\ unreadable \in SUBSET (1..MaxFiles)
    /\ stdinPiped \in BOOLEAN
    /\ stdinData \in InputOutcomes
    /\ editorData \in InputOutcomes
    /\ pc = "runCommand"
    /\ Fresh
    /\ ExecIdle
    /\ CacheIdle

NextBuild == runCommand

SpecBuild == InitBuild /\ [][NextBuild]_vars

----------------------------------------------------------------------------
\* The token cache (internal/token): concurrent callers, each with a *Cache
\* of its own from NewCache or sharing one, on the one file tokens.json

\* The operations a caller issues.
CacheOps ==
    {[op |-> "Get", id |-> id, token |-> NoToken] : id \in InstanceIds}
    \cup {[op |-> "Set", id |-> id, token |-> t] : id \in InstanceIds, t \in Tokens}
    \cup {[op |-> "Delete", id |-> id, token |-> NoToken] : id \in InstanceIds}
    \cup {[op |-> "Clear", id |-> 1, token |-> NoToken]}

\* c.mu of caller p's Cache is free for p: a mutex is a field of the Cache
\* value, so it excludes only the users of that value.  Set, Delete and
\* Clear hold it from their start to the end of their save, Get holds it
\* for reading while it loads, and readers do not exclude each other.
MutexFree(p) ==
    \A q \in DOMAIN callers :
        (/\ q # p
         /\ callers[q].cache = callers[p].cache
         /\ callers[q].at \in {"reading", "loaded", "opened"})
            => callers[p].op = "Get" /\ callers[q].op = "Get"

\* What is left unchanged by a step of the token cache.
CacheFrame ==
    UNCHANGED <<flags, inputs, execVars, singleResult, opened, pc,
                tasks, results, seqVars, parVars, effects>>

\* os.ReadFile, one Read of the open file: the bytes the file holds by now
\* behind those read so far.  os.ReadFile goes on until a Read gives none,
\* so a file of less than 512 bytes that holds data takes two of them.
ReadNext(file, read) == SubSeq(file.data, Len(read) + 1, Len(file.data))

\* Get: RLock, then load, a Read of the file each step (the first with the
\* open); after the last one the id is looked up and the mutex released.
CacheGet(p) ==
    /\ callers[p].op = "Get"
    /\ \/ callers[p].at = "start" /\ MutexFree(p)
       \/ callers[p].at = "reading"
    /\ IF tokenFile.kind = "data" /\ ReadNext(tokenFile, callers[p].read) # <<>>
       THEN callers' = [callers EXCEPT
                          ![p].at = "reading",
                          ![p].read = @ \o ReadNext(tokenFile, @)]
       ELSE callers' = [callers EXCEPT
                          ![p].at = "done",
                          ![p].got = Get(IF tokenFile.kind = "data"
                                         THEN DataFile(callers[p].read)
                                         ELSE tokenFile,
                                         InstanceName(callers[p].id))]
    /\ UNCHANGED tokenFile
    /\ CacheFrame

\* Set and Delete up to their save: Lock, then load into the local cache, a
\* Read of the file each step; a load error is returned.  Set reads the
\* clock for the entry it makes.
CacheLoad(p) ==
    /\ callers[p].op \in {"Set", "Delete"}
    /\ \/ callers[p].at = "start" /\ MutexFree(p)
       \/ callers[p].at = "reading"
    /\ IF tokenFile.kind = "data" /\ ReadNext(tokenFile, callers[p].read) # <<>>
       THEN callers' = [callers EXCEPT
                          ![p].at = "reading",
                          ![p].read = @ \o ReadNext(tokenFile, @)]
       ELSE LET Loaded(cache) ==
                    IF cache.err # "nil"
                    THEN callers' = [callers EXCEPT ![p].at = "done",
                                                    ![p].err = cache.err]
                    ELSE \E now \in ClockTimes :
                            callers' = [callers EXCEPT
                                          ![p].at = "loaded",
                                          ![p].loaded = cache.cache,
                                          ![p].now = now]
            IN Loaded(load(IF tokenFile.kind = "data"
                           THEN DataFile(callers[p].read)
                           ELSE tokenFile))
    /\ UNCHANGED tokenFile
    /\ CacheFrame

\* Clear up to its save: Lock, then an empty cache is made; nothing is read.
CacheClear(p) ==
    /\ callers[p].op = "Clear"
    /\ callers[p].at = "start"
    /\ MutexFree(p)
    /\ callers' = [callers EXCEPT ![p].at = "loaded", ![p].loaded = NewCacheData]
    /\ UNCHANGED tokenFile
    /\ CacheFrame

\* The cache data caller p hands to save.
ToSave(p) ==
    CASE callers[p].op = "Set" ->
            PutToken(callers[p].loaded, InstanceName(callers[p].id),
                     TokenString(callers[p].token), callers[p].now)
      [] callers[p].op = "Delete" ->
            [callers[p].loaded EXCEPT
                !.Tokens = MapDelete(@, InstanceName(callers[p].id))]
      [] callers[p].op = "Clear" -> callers[p].loaded

\* save, first half: the data is marshalled, and the error of that is
\* returned; os.WriteFile opens the file with O_TRUNC, which leaves it
\* without data, or fails to open it and the error is returned.
CacheOpen(p) ==
    /\ callers[p].at = "loaded"
    /\ IF MarshalIndent(ToSave(p)).err
       THEN /\ UNCHANGED tokenFile
            /\ callers' = [callers EXCEPT ![p].at = "done", ![p].err = "marshal"]
       ELSE \E ok \in BOOLEAN :
               IF ok
               THEN /\ tokenFile' = OpenTruncate(tokenFile)
                    /\ callers' = [callers EXCEPT ![p].at = "opened"]
               ELSE /\ UNCHANGED tokenFile
                    /\ callers' = [callers EXCEPT ![p].at = "done",
                                                  ![p].err = "write"]
    /\ CacheFrame

\* save, second half: the data is written over what the file holds by now,
\* or the write fails, with a part of the data written, none or all, and
\* the error is returned; then the mutex is released.
CacheSave(p) ==
    /\ callers[p].at = "opened"
    /\ \E ok \in BOOLEAN :
          IF ok
          THEN /\ tokenFile' = WriteAll(tokenFile,
                                        MarshalIndent(ToSave(p)).data)
               /\ callers' = [callers EXCEPT ![p].at = "done"]
          ELSE /\ tokenFile' \in WritePart(tokenFile,
                                           MarshalIndent(ToSave(p)).data)
               /\ callers' = [callers EXCEPT ![p].at = "done", ![p].err = "write"]
    /\ CacheFrame

\* Any of those states of the file; MaxCallers callers, of which the first
\* stores the first token for the given instance and every other one issues
\* any operation, on the Cache value of the first or on another one.
InitCache ==
    /\ runCode = FALSE
    /\ runFiles = <<>>
    /\ runInstance = FALSE
    /\ runRepeat = 1
    /\ runParallel = FALSE
    /\ runMaxParallel = 0
    /\ runKeepAlive = FALSE
    /\ runStream = FALSE
    /\ outputJSON = FALSE
    /\ EnvIs(QuietEnv)
    /\ pc = "tokenCache"
    /\ Fresh
    /\ ExecIdle
    /\ tokenFile \in CacheFiles
    /\ \E ops \in [1..MaxCallers -> CacheOps],
          caches \in [1..MaxCallers -> 1..MaxCallers] :
          /\ ops[1] = [op |-> "Set", id |-> GivenInstance, token |-> 1]
          /\ caches[1] = 1
          /\ callers = [p \in 1..MaxCallers |->
                          [op |-> ops[p].op, id |-> ops[p].id,
                           token |-> ops[p].token, cache |-> caches[p],
                           at |-> "start", err |-> "nil",
                           read |-> <<>>, loaded |-> NewCacheData,
                           now |-> CHOOSE now \in ClockTimes : TRUE,
                           got |-> [token |-> <<>>, found |-> FALSE]]]

NextCache ==
    \/ \E p \in DOMAIN callers : CacheGet(p)
    \/ \E p \in DOMAIN callers : CacheLoad(p)
    \/ \E p \in DOMAIN callers : CacheClear(p)
    \/ \E p \in DOMAIN callers : CacheOpen(p)
    \/ \E p \in DOMAIN callers : CacheSave(p)

SpecCache == InitCache /\ [][NextCache]_vars

----------------------------------------------------------------------------
\* The exec command (execCommand, getSandboxForExec)

\* A nonzero exit code of the remote command.
RemoteExitCode == 3

\* What Commands.Run returns: a transport error, a result with exit code 0,
\* a result with a nonzero exit code, with or without Error set.
ExecOutcomes == {"transportError", "zero", "nonzero", "nonzeroWithError"}

\* The --env lists: up to MaxEnv entries, each well-formed or not.
EnvLists == UNION {[1..k -> BOOLEAN] : k \in 0..MaxEnv}

\* getSandboxForExec issues the connect or the create call.
ExecStart ==
    /\ pc = "execCommand"
    /\ IF execInstance
       THEN /\ connectCalls' = connectCalls + 1
            /\ pc' = "exec_connect"
            /\ UNCHANGED createCalls
       ELSE /\ createCalls' = createCalls + 1
            /\ pc' = "exec_create"
            /\ UNCHANGED connectCalls
    /\ UNCHANGED <<flags, inputs, restVars, singleResult, opened, tasks, results,
                   seqVars, parVars, runCalls, killCalls, writes, printed,
                   keptAlive, summary, exitCode>>

\* Connect or create fails: execCommand returns the error before any defer.
ExecAcquireFail ==
    /\ pc \in {"exec_connect", "exec_create"}
    /\ IF pc = "exec_connect"
       THEN \E r \in ConnectSandboxWithCache(tokenFile, InstanceName(GivenInstance)) :
               ~r.ok /\ tokenFile' = r.file
       ELSE UNCHANGED tokenFile
    /\ ExitWithError
    /\ UNCHANGED <<flags, inputs, execVars, callers, singleResult,
                   opened, tasks, results, seqVars, parVars, createCalls,
                   connectCalls, runCalls, killCalls, writes, printed, keptAlive,
                   summary>>

\* Connected to the existing instance, with the token cache as
\* ConnectSandboxWithCache left it: cleanup does nothing.
ExecConnectOk ==
    /\ pc = "exec_connect"
    /\ \E r \in ConnectSandboxWithCache(tokenFile, InstanceName(GivenInstance)) :
          r.ok /\ tokenFile' = r.file
    /\ sandbox' = ExistingInstance
    /\ cleanup' = "noop"
    /\ pc' = "exec_env"
    /\ UNCHANGED <<flags, inputs, execInstance, execKeepAlive, execStream,
                   execEnv, callers, singleResult, opened, tasks, results,
                   sandboxCreateDuration, killDeferred, loopIdx, parVars,
                   effects>>

\* A temporary sandbox was created: cleanup kills it unless --keep-alive.
ExecCreateOk ==
    /\ pc = "exec_create"
    /\ sandbox' = 1
    /\ sandboxCreateDuration' = CreateTicks
    /\ IF execKeepAlive
       THEN /\ cleanup' = "noop"
            /\ keptAlive' = Append(keptAlive, <<1>>)
       ELSE /\ cleanup' = "kill"
            /\ UNCHANGED keptAlive
    /\ pc' = "exec_env"
    /\ UNCHANGED <<flags, inputs, execInstance, execKeepAlive, execStream,
                   execEnv, cacheVars, singleResult, opened, tasks, results,
                   killDeferred, loopIdx, parVars, createCalls, connectCalls,
                   runCalls, killCalls, writes, printed, summary, exitCode>>

\* `defer cleanup()` is registered, then the --env entries are parsed: an
\* entry that is not KEY=VALUE makes execCommand return an error.
ExecParseEnv ==
    /\ pc = "exec_env"
    /\ pc' = IF \E i \in 1..Len(execEnv) : ~execEnv[i]
             THEN "exec_return_err" ELSE "exec_running"
    /\ UNCHANGED <<flags, inputs, restVars, singleResult, opened, tasks, results,
                   seqVars, parVars, effects>>

\* Commands.Run returns.  A transport error, a failed command with Error set
\* in streaming mode and a PrintCommandResult error are returned; a nonzero
\* exit code otherwise ends the process at once with os.Exit.
ExecRunDone ==
    /\ pc = "exec_running"
    /\ \E outcome \in ExecOutcomes, printOk \in BOOLEAN :
          IF outcome = "transportError"
          THEN pc' = "exec_return_err" /\ UNCHANGED exitCode
          ELSE IF execStream
          THEN IF outcome = "zero"
               THEN pc' = "exec_return_nil" /\ UNCHANGED exitCode
               ELSE IF outcome = "nonzeroWithError"
               THEN pc' = "exec_return_err" /\ UNCHANGED exitCode
               ELSE pc' = "exited" /\ exitCode' = RemoteExitCode
          ELSE IF ~printOk
          THEN pc' = "exec_return_err" /\ UNCHANGED exitCode
          ELSE IF outcome = "zero"
          THEN pc' = "exec_return_nil" /\ UNCHANGED exitCode
          ELSE pc' = "exited" /\ exitCode' = RemoteExitCode
    /\ UNCHANGED <<flags, inputs, restVars, singleResult, opened, tasks, results,
                   seqVars, parVars, createCalls, connectCalls, runCalls,
                   killCalls, writes, printed, keptAlive, summary>>

\* execCommand returns: the deferred cleanup runs, and the process ends
\* with 1 for an error and 0 for nil.
ExecReturn ==
    /\ pc \in {"exec_return_err", "exec_return_nil"}
    /\ killCalls' = IF cleanup = "kill"
                    THEN [killCalls EXCEPT ![sandbox] = @ + 1]
                    ELSE killCalls
    /\ exitCode' = IF pc = "exec_return_err" THEN 1 ELSE 0
    /\ pc' = "exited"
    /\ UNCHANGED <<flags, inputs, restVars, singleResult, opened, tasks, results,
                   seqVars, parVars, createCalls, connectCalls, runCalls, writes,
                   printed, keptAlive, summary>>

execCommand ==
    \/ ExecStart
    \/ ExecAcquireFail
    \/ ExecConnectOk
    \/ ExecCreateOk
    \/ ExecParseEnv
    \/ ExecRunDone
    \/ ExecReturn

\* `ags exec` with any of its flags and --env lists.
InitExec ==
    /\ runCode = FALSE
    /\ runFiles = <<>>
    /\ runInstance = FALSE
    /\ runRepeat = 1
    /\ runParallel = FALSE
    /\ runMaxParallel = 0
    /\ runKeepAlive = FALSE
    /\ runStream = FALSE
    /\ outputJSON = FALSE
    /\ EnvIs(QuietEnv)
    /\ execInstance \in BOOLEAN
    /\ execKeepAlive \in BOOLEAN
    /\ execStream \in BOOLEAN
    /\ execEnv \in EnvLists
    /\ cleanup = "none"
    /\ pc = "execCommand"
    /\ Fresh
    /\ tokenFile \in (IF execInstance THEN InstanceCacheFiles ELSE {AbsentFile})
    /\ callers = <<>>

NextExec == execCommand

SpecExec == InitExec /\ [][NextExec]_vars

----------------------------------------------------------------------------
\* runTasksParallel under fair scheduling: `ags run -c CODE -n N -p` with
\* any --max-parallel and no --keep-alive (every sandbox is killed), followed
\* up to the return of the runner

\* Values of --max-parallel for n tasks: negative, 0, 1, n and above n.
LiveLimits(n) == {0 - 1, 0, 1, n, n + 1}

InitLive ==
    /\ runCode = TRUE
    /\ runFiles = <<>>
    /\ runRepeat \in 2..LiveTasks
    /\ runInstance = FALSE
    /\ runParallel = TRUE
    /\ runMaxParallel \in LiveLimits(runRepeat)
    /\ EnvIs(QuietEnv)
    /\ runKeepAlive = FALSE
    /\ runStream \in BOOLEAN
    /\ outputJSON \in BOOLEAN
    /\ pc = "runCommand"
    /\ Fresh
    /\ ExecIdle
    /\ CacheIdle

NextLive ==
    \/ runCommand
    \/ runTasksParallel

\* The steps of task goroutine idx, from the send on sem to wg.Done().
TaskStep(idx) ==
    /\ idx \in 1..Len(tpc)
    /\ \/ ParAcquire(idx)
       \/ ParCreateFail(idx)
       \/ ParCreateOk(idx)
       \/ ParRunCode(idx)
       \/ ParRunDone(idx)
       \/ ParSend(idx)
       \/ ParRelease(idx)
       \/ ParTaskReturn(idx)

\* The main goroutine, every task goroutine and the printer goroutine keep
\* taking their next step while it stays possible: the Go scheduler runs
\* every runnable goroutine, a blocked channel operation or Wait proceeds
\* once it can, and every Create, RunCode and Kill call returns.
FairScheduling ==
    /\ WF_vars(runCommand)
    /\ WF_vars(ParStart \/ ParWaitDone \/ ParPrintWaitDone \/ ParKill \/ ParReturn)
    /\ \A idx \in 1..(LiveTasks + 1) : WF_vars(TaskStep(idx))
    /\ WF_vars(PrinterReceive \/ PrinterExit)

SpecLive == InitLive /\ [][NextLive]_vars /\ FairScheduling

----------------------------------------------------------------------------
\* Properties

\* runTasksParallel has started its goroutines.
InParallelRun == Len(tpc) > 0

\* Every task goroutine has returned (wg.Wait() can return).
AllTasksDone == InParallelRun /\ wg = 0

\* The tasks between the semaphore acquire and its release.
ActiveTasks ==
    {i \in 1..Len(tpc) :
        tpc[i] \in {"acquiring", "tracked", "running", "stored", "sent"}}

\* C1: in runTasksParallel, under every --max-parallel and every interleaving,
\* a results slot is written by no goroutine but the one of its index, at most
\* once; once all goroutines have returned every slot i has been written
\* exactly once and holds the result of tasks[i].
C1_ParallelResultsAligned ==
    InParallelRun =>
        /\ \A i \in 1..Len(tasks) : writes[i] \in {<<>>, <<i>>}
        /\ AllTasksDone =>
              /\ Len(results) = Len(tasks)
              /\ \A i \in 1..Len(tasks) :
                    writes[i] = <<i>> /\ results[i].task = tasks[i]

\* C1 witness: MaxTasks goroutines under --max-parallel 2n have all returned,
\* having got their sandboxes in the reverse of the task order.
C1_Witness ==
    /\ AllTasksDone
    /\ Len(tasks) = MaxTasks
    /\ runMaxParallel = 2 * Len(tasks)
    /\ Len(sandboxes) = Len(tasks)
    /\ \A k \in 1..Len(tasks) : sandboxes[k] = Len(tasks) + 1 - k

\* C3: in every state of runTasksParallel the number of tasks between the
\* semaphore acquire and its release is at most min(limit, taskCount) when
\* the configured limit is positive, and at most taskCount otherwise.
C3_AdmissionGate ==
    InParallelRun =>
        Cardinality(ActiveTasks) <=
            IF runMaxParallel > 0
            THEN Min(runMaxParallel, Len(tasks))
            ELSE Len(tasks)

\* C3 witness: under --max-parallel 2 two tasks hold the gate and a third
\* waits for it.
C3_Witness ==
    /\ InParallelRun
    /\ runMaxParallel = 2
    /\ Cardinality(ActiveTasks) = 2
    /\ \E i \in 1..Len(tpc) : tpc[i] = "pending"


\* A run that runCommand hands to runTasksSequential.
SequentialRun ==
    /\ Len(tasks) > 0
    /\ ~(Len(tasks) = 1 /\ runRepeat <= 1)
    /\ ~runParallel

\* C2: when either runner has returned, results has one slot per task and
\* every slot holds a result of its own task, written once, whether the tasks
\* ran, failed, or the sandbox could not be acquired at all.
C2_OneResultPerTask ==
    pc = "print" =>
        /\ Len(tasks) > 0
        /\ Len(results) = Len(tasks)
        /\ \A i \in 1..Len(tasks) :
              /\ results[i].task = tasks[i]
              /\ Len(writes[i]) = 1
              /\ results[i].err # "nil" \/ results[i].result # "nil"

\* C2 witness: the sequential runner has returned after a failed connect to
\* the instance, with the longest list of files.
C2_Witness ==
    /\ pc = "print"
    /\ SequentialRun
    /\ Len(tasks) = MaxTasks - 1
    /\ results[MaxTasks - 1].err = "connect"

\* The results the claims count as failed: a transport or creation error, or
\* an Execution whose Error is set.
FailedResults(rs) ==
    {i \in 1..Len(rs) : rs[i].err # "nil" \/ rs[i].result = "error"}

\* The exit-code law.
LawExitCode(failed, total) ==
    IF failed = 0 THEN 0 ELSE IF failed < total THEN 1 ELSE 2

\* C4 as claimed: whatever branch printMultiTaskResults takes, the process
\* ends with 0 when nothing failed, 1 when some but not all tasks failed and
\* 2 when all failed.
C4_ExitCodeLaw_EveryBranch ==
    pc = "exited" =>
        exitCode = LawExitCode(Cardinality(FailedResults(results)), Len(results))

\* C4 amended: the law holds whenever the summary was printed, which is
\* always in streaming mode and in parallel text mode; in JSON or sequential
\* text mode PrintMultiTaskResult may return an error, and then the process
\* ends with 1 whatever the counts.
C4_ExitCodeLaw ==
    pc = "exited" =>
        IF summary # NoSummary
        THEN exitCode =
                LawExitCode(Cardinality(FailedResults(results)), Len(results))
        ELSE /\ exitCode = 1
             /\ ~runStream
             /\ outputJSON \/ ~runParallel

\* C4 witness: in JSON mode all of MaxResults tasks failed, the results were
\* printed and the process ended with 2.
C4_Witness ==
    /\ pc = "exited"
    /\ summary # NoSummary
    /\ ~runStream /\ outputJSON
    /\ Len(results) = MaxResults
    /\ Cardinality(FailedResults(results)) = MaxResults
    /\ exitCode = 2

\* C5: the summary counts as failed exactly the results with an error or
\* with an Execution whose Error is set, and as succeeded all the others.
C5_FailureClassification ==
    (pc = "exited" /\ summary # NoSummary) =>
        /\ summary.total = Len(results)
        /\ summary.failed = Cardinality(FailedResults(results))
        /\ summary.success + summary.failed = summary.total

\* C5 witness: a summary over a result with a transport error, a result with
\* an execution error and a result with neither error nor Execution.
C5_Witness ==
    /\ pc = "exited"
    /\ Len(results) = 3
    /\ results[1].err # "nil" /\ results[1].result = "nil"
    /\ results[2].err = "nil" /\ results[2].result = "error"
    /\ results[3].err = "nil" /\ results[3].result = "nil"
    /\ summary.failed = 2 /\ summary.success = 1

\* The sequential runner has returned, or is about to, without a sandbox.
SeqAcquireFailed ==
    /\ SequentialRun
    /\ pc \in {"seq_return", "print", "exited"}
    /\ sandbox = NoSandbox

\* C7: when the shared sandbox cannot be created or connected to, every task
\* gets the same error and zero durations, RunCode is called for no task and
\* Kill is called on no sandbox.
C7_SequentialBatchFailure ==
    SeqAcquireFailed =>
        /\ \E kind \in {"create", "connect"} :
              \A i \in 1..Len(tasks) :
                 results[i] = [task |-> tasks[i], result |-> "nil", err |-> kind,
                               createDuration |-> 0, execDuration |-> 0,
                               totalDuration |-> 0]
        /\ \A i \in 1..Len(tasks) : runCalls[i] = 0
        /\ \A sb \in DOMAIN killCalls : killCalls[sb] = 0

\* C7 witness: a sequential run of MaxTasks tasks has ended after code.Create
\* failed.
C7_Witness ==
    /\ SeqAcquireFailed
    /\ pc = "exited"
    /\ Len(tasks) = MaxTasks
    /\ createCalls = 1
    /\ results[MaxTasks].err = "create"

\* C8: a sequential run issues at most one create or connect call and at
\* most one Kill call, whatever the tasks return.
C8_SequentialLifecycle ==
    SequentialRun =>
        /\ createCalls + connectCalls <= 1
        /\ \A sb \in DOMAIN killCalls : killCalls[sb] <= 1
        /\ Cardinality({sb \in DOMAIN killCalls : killCalls[sb] > 0}) <= 1

\* C8 witness: a sequential run of MaxTasks tasks has ended, the first task
\* with a transport error and the last with an execution error, after one
\* Create and one Kill.
C8_Witness ==
    /\ SequentialRun
    /\ pc = "exited"
    /\ Len(tasks) = MaxTasks
    /\ results[1].err = "run"
    /\ results[MaxTasks].result = "error"
    /\ createCalls = 1
    /\ killCalls[1] = 1


\* The tasks of a parallel run whose code.Create failed.
CreateFailed == {i \in 1..Len(results) : results[i].err = "create"}

\* The ids held by the slice of tracked sandboxes.
Tracked == {sandboxes[k] : k \in 1..Len(sandboxes)}

\* C6: in a parallel run a task whose sandbox cannot be created records the
\* creation error in its own slot, never calls RunCode, tracks no sandbox and
\* gives its semaphore slot back; every other finished task has run once on
\* its own sandbox and holds its own outcome.  With ScenarioTasks tasks,
\* limit ScenarioLimit and one creation failure as the only failure, all
\* other tasks succeed and the exit code is 1.
C6_CreationFailureIsolation ==
    InParallelRun =>
        /\ sem = Cardinality(ActiveTasks)
        /\ \A i \in 1..Len(tpc) :
              tpc[i] = "done" =>
                 IF i \in CreateFailed
                 THEN /\ results[i].task = tasks[i]
                      /\ results[i].result = "nil"
                      /\ runCalls[i] = 0
                      /\ i \notin Tracked
                      /\ writes[i] = <<i>>
                 ELSE /\ results[i].task = tasks[i]
                      /\ results[i].err \in {"nil", "run"}
                      /\ runCalls[i] = 1
                      /\ i \in Tracked
                      /\ writes[i] = <<i>>
        /\ (/\ pc = "exited"
            /\ Cardinality(CreateFailed) = 1
            /\ FailedResults(results) = CreateFailed)
           => /\ exitCode = 1
              /\ summary # NoSummary =>
                    /\ summary.success = Len(tasks) - 1
                    /\ summary.failed = 1

\* C6 witness: ScenarioTasks tasks ran with limit ScenarioLimit, the Create of
\* the second task failed, the others succeeded, the summary says so and the
\* process ended with 1.
C6_Witness ==
    /\ pc = "exited"
    /\ InParallelRun
    /\ Len(tasks) = ScenarioTasks
    /\ maxParallel = ScenarioLimit
    /\ CreateFailed = {2}
    /\ FailedResults(results) = {2}
    /\ \A i \in 1..Len(tasks) : i # 2 => results[i].result = "ok"
    /\ sem = 0
    /\ summary.success = ScenarioTasks - 1
    /\ summary.failed = 1
    /\ exitCode = 1

\* C9: in a parallel run without --keep-alive, Kill is called on no sandbox
\* while a task is waiting, acquiring or running, and once the runner has
\* returned it has been called exactly once on every sandbox that was
\* created and on nothing else.
C9_ParallelCleanup ==
    (InParallelRun /\ ~runKeepAlive) =>
        /\ (ActiveTasks # {} \/ wg > 0) =>
              \A sb \in DOMAIN killCalls : killCalls[sb] = 0
        /\ pc \in {"print", "exited"} =>
              \A sb \in DOMAIN killCalls :
                 killCalls[sb] =
                    IF sb \in 1..Len(tasks) /\ sb \notin CreateFailed
                    THEN 1 ELSE 0

\* C9 witness: a parallel run of MaxTasks tasks without --keep-alive has
\* ended; the first Create failed and the other sandboxes were killed once.
C9_Witness ==
    /\ pc = "exited"
    /\ InParallelRun
    /\ ~runKeepAlive
    /\ Len(tasks) = MaxTasks
    /\ CreateFailed = {1}
    /\ \A sb \in 2..MaxTasks : killCalls[sb] = 1

\* C10: with --keep-alive no runner calls Kill, and the parallel runner
\* reports the created sandboxes in one message, after all tasks are done,
\* that lists each of them once.
C10_KeepAlive ==
    runKeepAlive =>
        /\ \A sb \in DOMAIN killCalls : killCalls[sb] = 0
        /\ InParallelRun =>
              IF pc \in {"print", "exited"} /\ Tracked # {}
              THEN /\ Len(keptAlive) = 1
                   /\ Len(keptAlive[1]) = Cardinality(Tracked)
                   /\ {keptAlive[1][k] : k \in 1..Len(keptAlive[1])} =
                         (1..Len(tasks)) \ CreateFailed
              ELSE keptAlive = <<>>

\* C10 witness: a parallel run of ParallelTasks tasks with --keep-alive has ended
\* and one message lists the sandbox of every task.
C10_Witness ==
    /\ pc = "exited"
    /\ runKeepAlive
    /\ InParallelRun
    /\ Len(tasks) = ParallelTasks
    /\ Len(keptAlive) = 1
    /\ Len(keptAlive[1]) = ParallelTasks

\* A run that runCommand hands to runMultiTasks.
MultiTaskRun ==
    /\ Len(tasks) > 0
    /\ ~(Len(tasks) = 1 /\ runRepeat <= 1)

\* C11: in a multi-task run without --keep-alive, once the runner has
\* returned, and so before and when the exit code is set (0, 1 or 2), Kill
\* has been called on every sandbox the runner created: the shared sandbox of
\* a sequential run, the sandbox of every task of a parallel run whose Create
\* succeeded.
C11_CleanupBeforeExit ==
    (MultiTaskRun /\ ~runKeepAlive /\ pc \in {"print", "exited"}) =>
        IF runParallel
        THEN \A i \in 1..Len(tasks) : i \notin CreateFailed => killCalls[i] = 1
        ELSE sandbox # NoSandbox /\ sandbox # ExistingInstance
                => killCalls[sandbox] = 1

\* C11 witness: a sequential run on a sandbox it created has ended with exit
\* code 2, every one of MaxTasks tasks having failed, after Kill was called.
C11_Witness ==
    /\ pc = "exited"
    /\ SequentialRun
    /\ ~runKeepAlive
    /\ Len(tasks) = MaxTasks
    /\ createCalls = 1
    /\ sandbox = 1
    /\ exitCode = 2
    /\ killCalls[1] = 1

\* The barrier: wg.Wait() can return or has returned.
AtBarrier == InParallelRun /\ wg = 0

\* Every task of the parallel run failed to create its sandbox.
AllCreateFailed == InParallelRun /\ CreateFailed = 1..Len(tasks)

\* The tracked list holds exactly the sandboxes of the tasks whose Create
\* succeeded, each once.
TrackedExactly ==
    /\ Tracked = (1..Len(tasks)) \ CreateFailed
    /\ Len(sandboxes) = Cardinality(Tracked)

\* C12 as claimed: at the barrier the tracked list holds exactly the
\* sandboxes whose creation succeeded, each once; when every creation failed
\* the list is empty and the process ends with exit code 2.
C12_SandboxTracking_Exit2 ==
    AtBarrier =>
        /\ TrackedExactly
        /\ AllCreateFailed =>
              /\ sandboxes = <<>>
              /\ pc = "exited" => exitCode = 2

\* C12 amended: the tracking holds as claimed; when every creation failed the
\* list is empty and the exit code is 2 whenever the summary was printed,
\* and 1 when PrintMultiTaskResult returned an error (JSON mode without
\* --stream).
C12_SandboxTracking ==
    AtBarrier =>
        /\ TrackedExactly
        /\ AllCreateFailed =>
              /\ sandboxes = <<>>
              /\ pc = "exited" =>
                    IF summary # NoSummary
                    THEN exitCode = 2
                    ELSE exitCode = 1 /\ outputJSON /\ ~runStream

\* C12 witness: every Create of a parallel run of ParallelTasks tasks failed;
\* nothing was tracked and the process ended with exit code 2.
C12_Witness ==
    /\ pc = "exited"
    /\ AllCreateFailed
    /\ Len(tasks) = ParallelTasks
    /\ createCalls = ParallelTasks
    /\ sandboxes = <<>>
    /\ exitCode = 2

\* The sequential runner has its sandbox and is in or past the task loop.
SeqAcquired == SequentialRun /\ sandbox # NoSandbox

\* C13: in a sequential run, whatever RunCode returned for the earlier
\* tasks, the loop goes on: every task before the loop position has been run
\* once and its slot written once with its own outcome, the slots of the
\* tasks still to run are untouched, and when the runner returns every task
\* has been run once, all on the one sandbox.
C13_SequentialFailureIndependence ==
    SeqAcquired =>
        /\ createCalls + connectCalls = 1
        /\ \A j \in 1..Len(tasks) :
              IF j < loopIdx
              THEN /\ runCalls[j] = 1
                   /\ writes[j] = <<MainGoroutine>>
                   /\ results[j].task = tasks[j]
              ELSE /\ runCalls[j] = IF j = loopIdx /\ pc = "seq_running"
                                    THEN 1 ELSE 0
                   /\ writes[j] = <<>>
                   /\ results[j] = ZeroResult
        /\ pc \in {"seq_return", "print", "exited"} => loopIdx = Len(tasks) + 1

\* C13 witness: in a sequential run of MaxTasks tasks the first task had a
\* transport error, the one before the last an execution error, and the last
\* task was still run and succeeded.
C13_Witness ==
    /\ SeqAcquired
    /\ pc = "exited"
    /\ Len(tasks) = MaxTasks
    /\ results[1].err = "run"
    /\ results[MaxTasks - 1].result = "error"
    /\ results[MaxTasks].result = "ok"
    /\ runCalls[MaxTasks] = 1

\* The tasks whose RunCode has been called and has not returned yet, and the
\* tasks whose RunCode has returned.
Executing == {j \in 1..Len(runCalls) : j \in DOMAIN writes
                                        /\ runCalls[j] > Len(writes[j])}
Returned == {j \in 1..Len(runCalls) : j \in DOMAIN writes
                                       /\ runCalls[j] >= 1
                                       /\ Len(writes[j]) >= runCalls[j]}

\* C14: in a sequential run at most one task is executing at any time, and a
\* task's RunCode has been called only if the RunCode of every task before
\* it in the list has returned.
C14_SequentialOrdering ==
    SequentialRun =>
        /\ Cardinality(Executing) <= 1
        /\ \A j \in 1..Len(runCalls) :
              runCalls[j] >= 1 => \A i \in 1..(j - 1) : i \in Returned
        /\ \A j \in 1..Len(runCalls) : runCalls[j] <= 1

\* C14 witness: the last of MaxTasks tasks of a sequential run is executing
\* and all the tasks before it have returned.
C14_Witness ==
    /\ SequentialRun
    /\ Len(tasks) = MaxTasks
    /\ Executing = {MaxTasks}
    /\ Returned = 1..(MaxTasks - 1)

\* The sequential runner has run every task.
SeqLoopDone == SeqAcquired /\ pc \in {"seq_return", "print", "exited"}

\* In a sequential run on a created sandbox only the first result carries the
\* creation time; on an existing instance no result does.
SeqCreateAttribution ==
    \A i \in 1..Len(results) :
       results[i].createDuration =
          IF i = 1 /\ sandbox # ExistingInstance
          THEN sandboxCreateDuration ELSE 0

\* The scenario: -c with --repeat 3, run sequentially, has ended and no task
\* failed.
RepeatThreeNoFailures ==
    /\ SeqLoopDone
    /\ pc = "exited"
    /\ runCode /\ runRepeat = 3
    /\ FailedResults(results) = {}

\* C15 as claimed: the creation time is on results[0] only (on no result
\* when an existing instance is used), and the --repeat 3 run without
\* failures gives 3 results and exit code 0.
C15_SeqCreateAttribution_Exit0 ==
    SeqLoopDone =>
        /\ SeqCreateAttribution
        /\ sandbox # ExistingInstance => sandboxCreateDuration > 0
        /\ RepeatThreeNoFailures => Len(results) = 3 /\ exitCode = 0

\* C15 amended: the attribution holds as claimed; the --repeat 3 run without
\* failures gives 3 results and, whenever the summary was printed (always
\* with --stream), succeeded = 3, failed = 0 and exit code 0; when
\* PrintMultiTaskResult returned an error the exit code is 1.
C15_SeqCreateAttribution ==
    SeqLoopDone =>
        /\ SeqCreateAttribution
        /\ sandbox # ExistingInstance => sandboxCreateDuration > 0
        /\ RepeatThreeNoFailures =>
              /\ Len(results) = 3
              /\ IF summary # NoSummary
                 THEN /\ summary = [total |-> 3, success |-> 3, failed |-> 0]
                      /\ exitCode = 0
                 ELSE exitCode = 1 /\ ~runStream

\* C15 witness: the --repeat 3 sequential run on a created sandbox ended
\* without failures: the first result carries the creation time, the others
\* none, and the exit code is 0.
C15_Witness ==
    /\ RepeatThreeNoFailures
    /\ sandbox = 1
    /\ results[1].createDuration = CreateTicks
    /\ results[2].createDuration = 0
    /\ results[3].createDuration = 0
    /\ summary = [total |-> 3, success |-> 3, failed |-> 0]
    /\ exitCode = 0

\* C16 as claimed: in every result either runner has stored, totalDuration is
\* createDuration + execDuration, on success and on creation failure alike.
C16_TotalIsSum ==
    \A i \in 1..Len(results) :
       Len(writes[i]) > 0 =>
          results[i].totalDuration =
             results[i].createDuration + results[i].execDuration

\* The number of results of task i waiting in resultChan.
InSink(i) ==
    Cardinality({k \in 1..Len(chanBuf) : chanBuf[k].task = tasks[i]})

\* The parallel runner has returned from wg.Wait() and printWg.Wait().
ParDrained == InParallelRun /\ pc \in {"par_cleanup", "print", "exited"}

\* C17: in a parallel run in text mode without --stream, the result of a task
\* is sent to resultChan once, when the task is done, and is either waiting
\* there or printed once; the channel never holds more than its capacity, is
\* closed only when every task is done, and is empty with every result
\* printed once the runner is past printWg.Wait().  In JSON mode or with
\* --stream there is no channel and nothing is sent or printed by the runner.
C17_ProgressiveSink ==
    InParallelRun =>
        IF ~outputJSON /\ ~runStream
        THEN /\ chanState \in {"open", "closed"}
             /\ \A i \in 1..Len(tasks) :
                   /\ printed[i] + InSink(i) =
                         IF tpc[i] \in {"sent", "released", "done"} THEN 1 ELSE 0
                   /\ InSink(i) > 0 => results[i] \in {chanBuf[k] : k \in 1..Len(chanBuf)}
             /\ Len(chanBuf) <= Len(tasks)
             /\ chanState = "closed" => \A i \in 1..Len(tasks) : tpc[i] = "done"
             /\ printerPc = "done" => chanState = "closed" /\ chanBuf = <<>>
             /\ ParDrained =>
                   /\ printerPc = "done"
                   /\ \A i \in 1..Len(tasks) : printed[i] = 1
        ELSE /\ chanState = "nil"
             /\ chanBuf = <<>>
             /\ printerPc = "none"
             /\ pc # "exited" => \A i \in 1..Len(tasks) : printed[i] = 0

\* C17 witness: a parallel text-mode run of ParallelTasks tasks is past
\* printWg.Wait(): the channel is closed and empty and every result,
\* among them one of a failed creation, has been printed once.
C17_Witness ==
    /\ InParallelRun
    /\ pc = "par_cleanup"
    /\ Len(tasks) = ParallelTasks
    /\ chanState = "closed"
    /\ chanBuf = <<>>
    /\ printerPc = "done"
    /\ results[1].err = "create"
    /\ \A i \in 1..ParallelTasks : printed[i] = 1

\* runCommand has called buildTasks: the flags passed its checks.
BuildCalled ==
    /\ pc # "runCommand"
    /\ ~(runCode /\ Len(runFiles) > 0)
    /\ ~(runRepeat > 1 /\ runInstance)

\* C18: the tasks buildTasks returns have ids 1..N in list order; with -f
\* the tasks of the k-th file of the list, one per repetition, come after
\* those of the files before it, so that with repeat r file k has the ids
\* (k-1)*r+1 .. k*r with instanceNo 1..r and totalInst r; with any other
\* source the r repetitions have ids and instanceNo 1..r.
C18_TaskIdMonotonicity ==
    (BuildCalled /\ tasks # <<>>) =>
        LET r == Max(runRepeat, 1) IN
        /\ \A i \in 1..Len(tasks) : tasks[i].id = i
        /\ \A i \in 1..Len(tasks) : tasks[i].totalInst = r
        /\ IF ~runCode /\ Len(runFiles) > 0
           THEN /\ Len(tasks) = Len(runFiles) * r
                /\ \A k \in 1..Len(runFiles) : \A j \in 1..r :
                      LET t == tasks[(k - 1) * r + j] IN
                      /\ t.source = FileSource(runFiles[k])
                      /\ t.code = FileContent(runFiles[k])
                      /\ t.instanceNo = j
           ELSE /\ Len(tasks) = r
                /\ \A i \in 1..r : tasks[i].instanceNo = i

\* C18 witness: three files, not in the order of their numbers, with
\* --repeat 2 give six tasks; the third file has ids 5 and 6 with instanceNo
\* 1 and 2 of 2.
C18_Witness ==
    /\ BuildCalled
    /\ Len(runFiles) = 3
    /\ runFiles[1] > runFiles[2]
    /\ runRepeat = 2
    /\ Len(tasks) = 6
    /\ tasks[5] = [id |-> 5, code |-> FileContent(runFiles[3]),
                   source |-> FileSource(runFiles[3]),
                   instanceNo |-> 1, totalInst |-> 2]
    /\ tasks[6].id = 6 /\ tasks[6].instanceNo = 2
    /\ tasks[6].source = FileSource(runFiles[3])

\* The source kinds of the tasks and of what buildTasks read or opened.
TaskKinds == {tasks[i].source.kind : i \in 1..Len(tasks)}
OpenedKinds == {opened[i].kind : i \in 1..Len(opened)}

\* C19: buildTasks uses one source: -c if given (nothing is read), else the
\* -f files (standard input and the editor are not touched), else piped
\* standard input (the editor is not opened, even when the input is empty),
\* else the editor; all its tasks carry the tag of that source.
C19_SourcePrecedence ==
    IF BuildCalled
    THEN /\ Cardinality(TaskKinds) <= 1
         /\ IF runCode
            THEN OpenedKinds = {} /\ TaskKinds = {"<code>"}
            ELSE IF Len(runFiles) > 0
            THEN OpenedKinds = {"file"} /\ TaskKinds \subseteq {"file"}
            ELSE IF stdinPiped
            THEN opened = <<StdinSource>> /\ TaskKinds \subseteq {"<stdin>"}
            ELSE opened = <<EditorSource>> /\ TaskKinds \subseteq {"<editor>"}
    ELSE opened = <<>> /\ tasks = <<>>

\* C19 witness: standard input is piped and empty while the editor would
\* return code: only standard input was read, no task was built and the
\* command failed.
C19_Witness ==
    /\ BuildCalled
    /\ ~runCode /\ runFiles = <<>>
    /\ stdinPiped /\ stdinData = "empty" /\ editorData = "code"
    /\ opened = <<StdinSource>>
    /\ tasks = <<>>
    /\ pc = "exited" /\ exitCode = 1

\* No Kill call has been issued.
NoKill == \A sb \in DOMAIN killCalls : killCalls[sb] = 0

\* C20: with both -c and -f the command ends with an error and no tasks,
\* having read no file, created or connected to no sandbox and run nothing.
C20_ConflictingSources ==
    (runCode /\ Len(runFiles) > 0) =>
        /\ pc \in {"runCommand", "exited"}
        /\ pc = "exited" => exitCode = 1
        /\ tasks = <<>>
        /\ opened = <<>>
        /\ results = <<>>
        /\ createCalls = 0 /\ connectCalls = 0
        /\ runCalls = <<>>
        /\ NoKill

\* C20 witness: a command with -c and the longest list of -f files has ended
\* with exit code 1 and no task.
C20_Witness ==
    /\ runCode
    /\ Len(runFiles) = MaxTasks - 1
    /\ pc = "exited"
    /\ exitCode = 1
    /\ tasks = <<>>
    /\ createCalls = 0

\* The position in the -f list of the first file that cannot be read
\* (0 when every file can be read).
FirstUnreadable ==
    IF \E k \in 1..Len(runFiles) : runFiles[k] \in unreadable
    THEN CHOOSE k \in 1..Len(runFiles) :
            /\ runFiles[k] \in unreadable
            /\ \A j \in 1..(k - 1) : runFiles[j] \notin unreadable
    ELSE 0

\* C21: when a file of the -f list cannot be read, whatever its position,
\* buildTasks returns the read error for the first such file and no tasks,
\* having read the files up to that one and nothing after it; runCommand
\* ends with exit code 1 without dispatching a runner: no sandbox is created
\* or connected to, nothing is run and nothing is killed.
C21_BuildErrorAborts ==
    (BuildCalled /\ ~runCode /\ FirstUnreadable > 0) =>
        LET built == buildTasks(runCode, runFiles, runRepeat, Env) IN
        /\ built.err = "read"
        /\ built.errFile = runFiles[FirstUnreadable]
        /\ built.tasks = <<>>
        /\ tasks = <<>>
        /\ opened = [j \in 1..FirstUnreadable |-> FileSource(runFiles[j])]
        /\ pc = "exited" /\ exitCode = 1
        /\ results = <<>>
        /\ createCalls = 0 /\ connectCalls = 0
        /\ runCalls = <<>>
        /\ NoKill

\* C21 witness: of three files with --repeat 2 only the last cannot be read:
\* the two files before it were read, and the command ended with exit code 1
\* and no task.
C21_Witness ==
    /\ BuildCalled
    /\ ~runCode
    /\ Len(runFiles) = 3
    /\ runRepeat = 2
    /\ unreadable = {runFiles[3]}
    /\ Len(opened) = 3
    /\ tasks = <<>>
    /\ pc = "exited" /\ exitCode = 1

\* The outcome of task i has reached the user exactly once: its result was
\* printed once, or, in streaming mode, it succeeded and its output was
\* streamed while it ran.
Reported(i) ==
    \/ printed[i] = 1
    \/ runStream /\ printed[i] = 0 /\ ~IsFailed(results[i])

\* C23: when a multi-task run has ended after its summary was printed, the
\* outcome of every task, failed ones with their error included, has been
\* reported exactly once, in every execution mode, output mode and with or
\* without streaming, and the exit code is nonzero exactly when a task
\* failed.
C23_EveryOutcomeReported ==
    (MultiTaskRun /\ pc = "exited" /\ summary # NoSummary) =>
        /\ \A i \in 1..Len(results) : Reported(i)
        /\ exitCode # 0 <=> summary.failed > 0

\* A run that runCommand hands to runSingleTask.
SingleTaskRun == Len(tasks) = 1 /\ runRepeat <= 1

\* C24: when the one task of the single-task path ended with an execution
\* error, the command exits with a nonzero code, with and without
\* streaming.
C24_SingleFailurePropagates ==
    (SingleTaskRun /\ pc = "exited" /\ singleResult = "execError") =>
        exitCode # 0

\* C25: the two counting loops of printMultiTaskResults give the same
\* counts on every results slice, so the aggregate is a function of the
\* slice: whichever branch prints the summary, it is the slice's length with
\* those counts and the exit code is the one the counts give; when
\* PrintMultiTaskResult fails nothing is printed and the exit code is 1.
C25_AggregatorIdempotent ==
    LET first == CountLoop(results, 1, NoCounts)
        again == RecountLoop(results, 1, NoCounts) IN
    /\ first = again
    /\ first.success + first.failed = Len(results)
    /\ pc = "exited" =>
          IF summary # NoSummary
          THEN /\ summary = TaskSummary(results, first)
               /\ summary = TaskSummary(results, again)
               /\ exitCode = ExitCodeFor(first.failed, Len(results))
               /\ exitCode = ExitCodeFor(again.failed, Len(results))
          ELSE exitCode = 1

\* C25 witness: MaxResults results, among them one with both a transport
\* error and a failed Execution and one with neither error nor Execution,
\* were printed with the recounted summary.
C25_Witness ==
    /\ pc = "exited"
    /\ summary # NoSummary
    /\ ~runStream /\ ~runParallel
    /\ Len(results) = MaxResults
    /\ \E i, j \in 1..MaxResults :
          /\ results[i].err = "run" /\ results[i].result = "error"
          /\ results[j].err = "nil" /\ results[j].result = "nil"
    /\ summary.failed = CountLoop(results, 1, NoCounts).failed
    /\ summary.failed < MaxResults

\* Every caller of the cache has completed its operation.
CacheQuiet == \A p \in DOMAIN callers : callers[p].at = "done"

\* C26: after two callers, each with the Cache NewCache gave it, have
\* completed Set(a, x) and Set(b, y) with a # b without an error, in
\* whatever interleaving with each other, Get(a) returns (x, true) and
\* Get(b) returns (y, true).
C26_NoLostUpdate ==
    \A p, q \in DOMAIN callers :
        (/\ CacheQuiet
         /\ callers[p].cache # callers[q].cache
         /\ callers[p].op = "Set" /\ callers[q].op = "Set"
         /\ callers[p].err = "nil" /\ callers[q].err = "nil"
         /\ callers[p].id # callers[q].id) =>
            /\ Get(tokenFile, InstanceName(callers[p].id)) =
                  [token |-> TokenString(callers[p].token), found |-> TRUE]
            /\ Get(tokenFile, InstanceName(callers[q].id)) =
                  [token |-> TokenString(callers[q].token), found |-> TRUE]

\* C27: when --instance is given and the command passes validation, no
\* sandbox is created and none is killed, whether the tasks run on the
\* single-task path, sequentially or in parallel.
C27_InstanceNoLifecycle ==
    (runInstance /\ BuildCalled) =>
        /\ createCalls = 0
        /\ NoKill

\* C28: a temporary sandbox that execCommand created without --keep-alive
\* has been killed exactly once when the process ends, and not before,
\* whichever way the command ends after the creation.
C28_ExecCleanup ==
    (~execInstance /\ ~execKeepAlive /\ sandbox = 1) =>
        /\ pc = "exited" => killCalls[1] = 1
        /\ pc # "exited" => killCalls[1] = 0

\* C29: on the single-task path a sandbox created without --keep-alive is
\* killed exactly once when runSingleTask returns, whatever it returns (a
\* RunCode transport error, nil after an execution error, a print error,
\* nil after success), and not before; nothing is killed when the sandbox
\* is an existing instance, when it is kept alive or when its creation
\* failed.
C29_SingleCleanup ==
    (BuildCalled /\ SingleTaskRun) =>
        /\ \A s \in DOMAIN killCalls : killCalls[s] <= 1
        /\ (runInstance \/ runKeepAlive \/ sandbox = NoSandbox) => NoKill
        /\ pc # "exited" => NoKill
        /\ (pc = "exited" /\ ~runInstance /\ ~runKeepAlive /\ sandbox = 1) =>
              /\ killCalls[1] = 1
              /\ \A s \in DOMAIN killCalls : s # 1 => killCalls[s] = 0

\* C29 witness: the code ran with an execution error on a sandbox created
\* for it, printing the result failed, and the command ended with exit code
\* 1 after the one Kill.
C29_Witness ==
    /\ BuildCalled /\ SingleTaskRun
    /\ ~runInstance /\ ~runKeepAlive /\ ~runStream
    /\ pc = "exited"
    /\ singleResult = "execError"
    /\ exitCode = 1
    /\ createCalls = 1
    /\ killCalls[1] = 1

\* runTasksParallel has returned with nothing left behind: every goroutine
\* has finished, sem is empty, the WaitGroup is at zero and the printer, if
\* one was started, has drained the channel and ended.
ParallelReturned ==
    /\ pc = "print"
    /\ Len(results) = Len(tasks)
    /\ \A i \in 1..Len(tpc) : tpc[i] = "done"
    /\ sem = 0
    /\ wg = 0
    /\ chanBuf = <<>>
    /\ printerPc \in {"none", "done"}

\* C30: with every remote call returning and fair scheduling,
\* runTasksParallel, once entered, returns, whatever the number of tasks,
\* the --max-parallel value (negative, 0, 1, above the task count) and the
\* failures of Create and RunCode: every waiting goroutine gets past the
\* admission gate, every slot taken is given back, also after a failed
\* Create, and the printer goroutine ends.
C30_ParallelTerminates ==
    /\ (pc = "runTasksParallel") ~> ParallelReturned
    /\ \A idx \in 1..(LiveTasks + 1) :
          (idx \in DOMAIN tpc /\ tpc[idx] = "pending")
             ~> (idx \in DOMAIN tpc /\ tpc[idx] # "pending")
    /\ \A idx \in 1..(LiveTasks + 1) :
          (idx \in DOMAIN tpc /\ tpc[idx] = "acquiring" /\ sem > 0)
             ~> (sem = 0)

\* C30 witness: LiveTasks tasks under a negative --max-parallel, one of
\* which failed to create its sandbox and one of which ran, have all
\* finished, the printer has ended and the runner has returned.
C30_Witness ==
    /\ ParallelReturned
    /\ Len(tasks) = LiveTasks
    /\ runMaxParallel < 0
    /\ maxParallel = LiveTasks
    /\ printerPc = "done"
    /\ \E i, j \in 1..LiveTasks :
          /\ results[i].err = "create"
          /\ results[j].err = "nil"

====
